---- MODULE Spec2Model ----
(***************************************************************************)
(* bunqldb: the ambient-context query dispatcher (sql / sql.verbose /      *)
(* sql.silent), the logging overlay and the @Transactional scope.          *)
(*                                                                         *)
(* A task is one activation of an async function: a top-level call chain   *)
(* (kind "root"), one invocation of a @Transactional method (kind "txn"),  *)
(* one withSkippedSqlLogging(fn) call (kind "skip") or the executeFn of a  *)
(* DB helper (kind "skip" when called with {logging: false}, else "fn").   *)
(* The AsyncLocalStorage store of a task is the store that was current     *)
(* when the task was started, with the override dbContextStorage.run       *)
(* installed.  A chain is a root task with all the tasks started below it. *)
(***************************************************************************)
EXTENDS Integers, Sequences, FiniteSets, TLC

\* ------------------------------------------------------------------ bounds
NRoots == 2        \* independent call chains started at top level
MaxTasks == 4      \* activations in one run, the roots included
ScopeTasks == 3    \* activations in a run of a single call chain
MaxOps == 4        \* dispatches and calls made in one run
MaxConfigure == 1  \* configureDb calls in one run
MaxReconfigure == 3 \* configureDb calls in a run without call chains
MaxResets == 2     \* pooled handles closed in one run
MaxChain == 2      \* facet accesses in front of one dispatch or property read
MaxSeq == 5        \* cursor-column values of the rows present before a run
MaxLimit == 3      \* page sizes asked of the cursor pagination
MaxPages == 6      \* cursorPaginate calls of one traversal
MaxRows == 12      \* rows of the table the offset pagination reads
MaxPage == 3       \* page numbers asked of the offset pagination
MaxRow == 4        \* page sizes asked of the offset pagination
ProviderTasks == 2 \* activations in a run of the connection provider

Tasks == 1..MaxTasks
Roots == 1..NRoots

\* ------------------------------------------------------------ JS values
\* A JavaScript value as the catch handler of Transactional sees it: its
\* type, the names of its own properties, and the value of its `result`
\* property (named by type; "-" when there is none).
JsVal(t, keys, result) == [t |-> t, keys |-> keys, result |-> result]
Undefined == JsVal("undefined", {}, "-")
NullValue == JsVal("null", {}, "-")
RowId == JsVal("number", {}, "-")
PlainError == JsVal("object", {"message", "stack"}, "-")
QueryError == JsVal("object", {"message", "stack", "code"}, "-")
MarkedError == JsVal("object", {"__tddRollback", "message"}, "-")
SentinelShaped == JsVal("object", {"__tddRollback", "result"}, "number")

\* what a unit of work may return, and what it may throw
Returnable == {Undefined, RowId}
Throwable == {PlainError, NullValue, MarkedError, SentinelShaped}

Truthy(v) == v.t \notin {"undefined", "null"}
TypeOf(v) == IF v.t = "null" THEN "object" ELSE v.t
HasProp(v, k) == k \in v.keys
\* error.result
ResultOf(v) == IF v.result = "number" THEN RowId ELSE Undefined

\* --------------------------------------------------------------- handles
NoHandle == [kind |-> "none", id |-> 0]
PoolHandle(n) == [kind |-> "pool", id |-> n]
TxHandle(t) == [kind |-> "tx", id |-> t]

\* a settled or pending outcome of an activation
NoOutcome == [kind |-> "none", val |-> Undefined]
Returned(v) == [kind |-> "ret", val |-> v]
Thrown(e) == [kind |-> "throw", val |-> e]

VARIABLES
    task,               \* the activations
    txState,            \* per activation, the transaction its begin opened
    txLog,              \* per transaction, the rows written through its handle
    db,                 \* the committed rows, what a pool query reads
    logs,               \* the log entries emitted
    baseSql,            \* internal-db.ts: the pooled handle, or NoHandle
    sqlLoggingEnabled,  \* internal-db.ts: the global logging flag
    currentLogger,      \* internal-db.ts: the sink of the log entries
    dateStringsEnabled, \* internal-db.ts: the dateStrings flag
    tddMode,            \* process.env.TDD_MODE === 'true'
    nConfigure,         \* configureDb calls made so far
    env,                \* process.env: connection settings and runtime mode
    detectedDbType,     \* internal-db.ts: the cached database type
    created,            \* the pooled handles constructed, with their settings
    closed,             \* the pooled handles that were closed
    delivered           \* the logger function that received each log entry

vars == <<task, txState, txLog, db, logs, baseSql, sqlLoggingEnabled,
          currentLogger, dateStringsEnabled, tddMode, nConfigure, env,
          detectedDbType, created, closed, delivered>>

\* ---------------------------------------------------- ambient context store
\* DbContext { tx?, skipSqlLogging? }.  Every reader goes through `?.` and
\* `??`, and every writer spreads `{...currentContext}`, so "no store" and a
\* store with both fields unset are the same value here.
EmptyStore == [tx |-> NoHandle, skipSqlLogging |-> FALSE]

\* the query an activation is awaiting; via: the facets named in front of
\* the call, as in sql.silent.verbose`...`; by: the activation that
\* dispatched it; enabled: the global logging flag at the dispatch; how: the
\* way its settlement is observed, `await q`, `await q.then()` or
\* `await q.catch()`
NoQuery == [target |-> NoHandle, mode |-> "default", wrapped |-> FALSE,
            enabled |-> FALSE, text |-> <<>>, via |-> <<>>, by |-> 0,
            how |-> "await"]

\* what an await of a query evaluated to
NoValue == [kind |-> "none", rows |-> {}]
QueryResult(rows) == [kind |-> "rows", rows |-> rows]

\* options.cursor of the cursor pagination: null, or a value of the cursor
\* column
NullCursor == [isNull |-> TRUE, v |-> 0]
Cursor(v) == [isNull |-> FALSE, v |-> v]

\* the traversal an activation makes with DB.cursorPaginate: st none (not
\* begun), open (the last page named a next cursor) or done (it named none),
\* the limit and the direction it pages with, the cursor of its next call,
\* the cursor-column values of the rows collected so far and the calls made
NoWalk == [st |-> "none", limit |-> 0, isDesc |-> FALSE, cursor |-> NullCursor,
           seen |-> <<>>, pages |-> 0]

\* st: off (not part of the run), free (not started yet), run, waitQ
\* (awaiting its query), waitT (awaiting activation waitOn), exc (an awaited
\* failure err was thrown into it), closing (its begin callback has settled
\* as cb), done (settled as outcome)
\* kind: root, txn, skip, or fn (a plain async function); helper: the DB
\* helper the activation is a call of, "-" when it is none, and logging:
\* the logging option the helper was called with
\* got: what its last awaited query evaluated to; walk: its traversal
\* held: the query expression it dispatched and keeps in a variable, not
\* yet awaited; nLogError: the calls of logError the last failure it
\* observed has made
FreeTask == [st |-> "free", kind |-> "root", helper |-> "-",
             logging |-> "-", parent |-> 0,
             store |-> EmptyStore, q |-> NoQuery, waitOn |-> 0,
             joined |-> FALSE, ops |-> 0, isTddMode |-> FALSE,
             err |-> Undefined, got |-> NoValue, body |-> NoOutcome,
             cb |-> NoOutcome, outcome |-> NoOutcome, walk |-> NoWalk,
             held |-> NoQuery, nLogError |-> 0]

\* a store kept in one module-level slot: whoever holds a transaction is seen
\* by every chain
getStore_shared(t) ==
    LET holders == {c \in Tasks : task[c].st \notin {"free", "off", "done"}
                                   /\ task[c].store.tx # NoHandle}
    IN IF holders = {} THEN task[t].store
       ELSE task[CHOOSE c \in holders : TRUE].store

\* dbContextStorage.getStore() as seen by activation t
getStore(t) == task[t].store
getDbContext(t) == getStore(t)

\* the transaction slot is never read
getTx_unset(t) == NoHandle

\* getTx()
getTx(t) == getStore(t).tx

\* the suppression flag of any running activation counts
isSqlLoggingSkipped_shared(t) ==
    \E c \in Tasks : /\ task[c].st \notin {"free", "off", "done"}
                     /\ task[c].store.skipSqlLogging

\* isSqlLoggingSkipped()
isSqlLoggingSkipped(t) == getStore(t).skipSqlLogging

\* process.env as the library reads it: DATABASE_URL (unset, or a postgres
\* or mysql URL), whether DB_HOST, DB_USER, DB_PASSWORD and DB_NAME are all
\* set, isProdEnv() and isTestEnv()
Env(url, parts, prod, test) ==
    [url |-> url, parts |-> parts, prod |-> prod, test |-> test]

\* a development run against a postgres DATABASE_URL
DefaultEnv == Env("postgres", FALSE, FALSE, FALSE)

\* the state after the module is loaded under environment e against a
\* database holding `rows`, and global logging is set to `enabled`, with the
\* call chains in `roots` started at top level and at most n activations to
\* come
InitState(roots, n, e, rows, enabled) ==
    /\ task = [t \in Tasks |->
                 IF t \in roots THEN [FreeTask EXCEPT !.st = "run"]
                 ELSE IF t <= n THEN FreeTask
                 ELSE [FreeTask EXCEPT !.st = "off"]]
    /\ txState = [t \in Tasks |-> "none"]
    /\ txLog = [t \in Tasks |-> <<>>]
    /\ db = rows
    /\ logs = {}
    /\ baseSql = NoHandle
    /\ sqlLoggingEnabled = enabled
    /\ currentLogger = "console"
    /\ dateStringsEnabled = FALSE
    /\ tddMode \in BOOLEAN
    /\ nConfigure = 0
    /\ env = e
    /\ detectedDbType = "null"
    /\ created = {}
    /\ closed = {}
    /\ delivered = {}

\* the same with global logging as the module sets it up: disabled
InitTable(roots, n, e, rows) == InitState(roots, n, e, rows, FALSE)

\* the same against an empty database
InitEnv(roots, n, e) == InitTable(roots, n, e, {})

\* the same under the default environment
InitWith(roots, n) == InitEnv(roots, n, DefaultEnv)

\* ------------------------------------------------------- helpers of the model
\* the lowest activation not yet started
FreeId == CHOOSE c \in Tasks :
            /\ task[c].st = "free"
            /\ \A d \in Tasks : task[d].st = "free" => c <= d
HasFree == \E c \in Tasks : task[c].st = "free"

Rows(log) == {log[i] : i \in 1..Len(log)}

\* the dispatches and calls made so far by the activations 1..n
RECURSIVE OpsUpTo(_)
OpsUpTo(n) == IF n = 0 THEN 0 ELSE task[n].ops + OpsUpTo(n - 1)
CanOperate == OpsUpTo(MaxTasks) < MaxOps

\* is t running application code that goes on as it likes, or (FALSE) the
\* executeFn of a DB helper, which awaits the one query and returns
AppCode(t) == task[t].st = "run" /\ task[t].helper = "-"

\* the store does not survive the suspension
StoreAfterAwait_lost(t) == EmptyStore

\* the store a continuation of t sees once the awaited promise has settled:
\* AsyncLocalStorage carries the store of the awaiting activation across it
StoreAfterAwait(t) == task[t].store

\* ------------------------------------------------------ connection provider
\* detectDbType()
detectDbType == IF env.url = "mysql" THEN "mysql" ELSE "postgres"

\* getDbType(): the value it returns, which it also leaves in the cache
getDbType == IF detectedDbType = "null" THEN detectDbType ELSE detectedDbType

\* only DATABASE_URL counts as a connection setting
Configured_urlOnly == env.url # "unset"

\* getBaseSql(): can it construct a handle from process.env
Configured == env.url # "unset" \/ env.parts

\* getBaseSql(): the settings `new SQL(...)` is given
ConnectionSettings ==
    IF env.url # "unset" THEN [from |-> "DATABASE_URL", db |-> env.url]
    ELSE [from |-> "DB_HOST", db |-> getDbType]

\* the error getBaseSql throws when the settings are missing
ConfigError == JsVal("object", {"message", "stack", "settings"}, "-")

\* every call constructs a handle of its own
getBaseSql_fresh ==
    IF Configured THEN PoolHandle(Cardinality(created) + 1) ELSE NoHandle

\* getBaseSql(): the handle it returns, the cached one or one constructed on
\* this call; NoHandle stands for the call throwing ConfigError
getBaseSql ==
    IF baseSql # NoHandle THEN baseSql
    ELSE IF Configured THEN PoolHandle(Cardinality(created) + 1)
    ELSE NoHandle

\* getBaseSql(): what a step leaves in the module state when it calls
\* getBaseSql (called) and when it does not
UseBaseSql(called) ==
    /\ baseSql' = IF called THEN getBaseSql ELSE baseSql
    /\ created' = IF called /\ getBaseSql \notin {NoHandle, baseSql}
                    THEN created \cup {[h |-> getBaseSql,
                                        settings |-> ConnectionSettings]}
                    ELSE created
    /\ detectedDbType' = IF called /\ baseSql = NoHandle /\ env.url = "unset"
                           THEN getDbType ELSE detectedDbType

\* the pooled handle is fetched before the transaction is looked at
CallsProvider_eager(t) == TRUE

\* createSqlProxyWithMode, apply and get: `tx || getBaseSql()`, does an
\* access by activation t call getBaseSql
CallsProvider(t) == getTx(t) = NoHandle

\* isDbConnected()
isDbConnected == baseSql # NoHandle

\* what a call of the provider API evaluated to
Handle(h) == [kind |-> "handle", rows |-> {h}]
DbType(type) == [kind |-> "dbType", rows |-> {type}]

\* activation t calls getBaseSql()
GetBaseSql(t) ==
    /\ AppCode(t)
    /\ CanOperate
    /\ UseBaseSql(TRUE)
    /\ task' = IF getBaseSql = NoHandle
                 THEN [task EXCEPT ![t].st = "exc", ![t].ops = @ + 1,
                                   ![t].err = ConfigError]
                 ELSE [task EXCEPT ![t].ops = @ + 1,
                                   ![t].got = Handle(getBaseSql)]
    /\ UNCHANGED <<txState, txLog, db, logs, sqlLoggingEnabled, currentLogger,
                   dateStringsEnabled, tddMode, nConfigure, env, closed,
                   delivered>>

\* activation t calls getDbType()
GetDbType(t) ==
    /\ AppCode(t)
    /\ CanOperate
    /\ detectedDbType' = getDbType
    /\ task' = [task EXCEPT ![t].ops = @ + 1, ![t].got = DbType(getDbType)]
    /\ UNCHANGED <<txState, txLog, db, logs, baseSql, sqlLoggingEnabled,
                   currentLogger, dateStringsEnabled, tddMode, nConfigure, env,
                   created, closed, delivered>>

\* the reset leaves the cached database type in place
resetConnection_keepsType ==
    /\ Cardinality(closed) < MaxResets
    /\ closed' = IF baseSql # NoHandle THEN closed \cup {baseSql} ELSE closed
    /\ baseSql' = NoHandle
    /\ UNCHANGED <<task, txState, txLog, db, logs, sqlLoggingEnabled,
                   currentLogger, dateStringsEnabled, tddMode, nConfigure, env,
                   detectedDbType, created, delivered>>

\* resetConnection()
resetConnection ==
    /\ Cardinality(closed) < MaxResets
    /\ closed' = IF baseSql # NoHandle THEN closed \cup {baseSql} ELSE closed
    /\ baseSql' = NoHandle
    /\ detectedDbType' = "null"
    /\ UNCHANGED <<task, txState, txLog, db, logs, sqlLoggingEnabled,
                   currentLogger, dateStringsEnabled, tddMode, nConfigure, env,
                   created, delivered>>

\* the application or its launcher changes process.env to e
SetEnv(e) ==
    /\ e # env
    /\ env' = e
    /\ UNCHANGED <<task, txState, txLog, db, logs, baseSql, sqlLoggingEnabled,
                   currentLogger, dateStringsEnabled, tddMode, nConfigure,
                   detectedDbType, created, closed, delivered>>

Urls == {"unset", "postgres", "mysql"}
Envs == {Env(u, p, prod, test) : u \in Urls, p \in BOOLEAN,
                                 prod \in BOOLEAN, test \in BOOLEAN}

\* ---------------------------------------------------------- configuration
\* setSqlLogging(options)
setSqlLogging(options) ==
    /\ sqlLoggingEnabled' = options.enabled
    /\ currentLogger' = IF options.logger # "undefined" THEN options.logger
                        ELSE "console"

NoLogging == [given |-> FALSE, enabled |-> FALSE, logger |-> "undefined"]
Logging(enabled, logger) == [given |-> TRUE, enabled |-> enabled, logger |-> logger]
LoggingOptions == {NoLogging, Logging(TRUE, "undefined"), Logging(TRUE, "custom"),
                   Logging(FALSE, "undefined")}
DateStringsOptions == {"undefined", "true", "false"}

\* how many configureDb calls a run explores: a run of the configuration API
\* alone, without call chains, goes further
ConfigureLimit ==
    IF \A t \in Tasks : task[t].st = "off" THEN MaxReconfigure
    ELSE MaxConfigure

\* the call hands config.logging to setSqlLogging without testing it
configureDb_always(logging, dateStrings) ==
    /\ nConfigure < ConfigureLimit
    /\ nConfigure' = nConfigure + 1
    /\ setSqlLogging(logging)
    /\ dateStringsEnabled' =
         IF dateStrings # "undefined" THEN dateStrings = "true"
         ELSE dateStringsEnabled
    /\ UNCHANGED <<task, txState, txLog, db, logs, baseSql, tddMode, env,
                   detectedDbType, created, closed, delivered>>

\* configureDb(config)
configureDb(logging, dateStrings) ==
    /\ nConfigure < ConfigureLimit
    /\ nConfigure' = nConfigure + 1
    /\ IF logging.given
         THEN setSqlLogging(logging)
         ELSE UNCHANGED <<sqlLoggingEnabled, currentLogger>>
    /\ dateStringsEnabled' =
         IF dateStrings # "undefined" THEN dateStrings = "true"
         ELSE dateStringsEnabled
    /\ UNCHANGED <<task, txState, txLog, db, logs, baseSql, tddMode, env,
                   detectedDbType, created, closed, delivered>>

\* -------------------------------------------------------- query dispatcher
Modes == {"default", "verbose", "silent"}

\* the dispatcher always goes to the pool
Target_pool(t) == getBaseSql

\* createSqlProxyWithMode(mode).apply: the target of a dispatch by t
Target(t) == IF getTx(t) # NoHandle THEN getTx(t) ELSE getBaseSql

\* the global logging flag is not consulted
AttachLogging_unconditional(t, mode) ==
    /\ mode # "silent"
    /\ \/ mode = "verbose"
       \/ mode = "default" /\ ~isSqlLoggingSkipped(t)

\* silent is not told apart from default
AttachLogging_global(t, mode) ==
    \/ mode = "verbose"
    \/ sqlLoggingEnabled /\ ~isSqlLoggingSkipped(t)

\* createSqlProxyWithMode(mode).apply: is the logging proxy attached
\* (template-literal calls)
AttachLogging(t, mode) ==
    /\ mode # "silent"
    /\ \/ mode = "verbose"
       \/ mode = "default" /\ sqlLoggingEnabled /\ ~isSqlLoggingSkipped(t)

\* ---- the text of a query, rebuilt for the log
\* A bound parameter value as formatValue tells values apart: its type, for
\* an array the types of its elements, and ok: a date with a valid time
\* value, a query expression whose strings and values can be read, an object
\* JSON.stringify can serialize.
Val(type, ok, elems) == [type |-> type, ok |-> ok, elems |-> elems]
VNull == Val("null", TRUE, {})
VNumber == Val("number", TRUE, {})
VBigint == Val("bigint", TRUE, {})
VBoolean == Val("boolean", TRUE, {})
VString == Val("string", TRUE, {})
VDate == Val("date", TRUE, {})
VInvalidDate == Val("date", FALSE, {})
VNumbers == Val("array", TRUE, {"number"})
VBigints == Val("array", TRUE, {"number", "bigint"})
VFragment == Val("fragment", TRUE, {})
VOpaque == Val("fragment", FALSE, {})
VObject == Val("object", TRUE, {})
VCyclic == Val("object", FALSE, {})

ParamValues == {VNull, VNumber, VBigint, VBoolean, VString, VDate,
                VInvalidDate, VNumbers, VBigints, VFragment, VOpaque,
                VObject, VCyclic}

\* a piece of text, or the error raised instead
Text(s) == [kind |-> "text", text |-> <<s>>, err |-> Undefined]
NoText == [kind |-> "text", text |-> <<>>, err |-> Undefined]
\* the TypeError / RangeError the runtime raises
RuntimeError == JsVal("object", {"message", "stack", "line"}, "-")
Raises == [kind |-> "throw", text |-> <<>>, err |-> RuntimeError]

\* JSON.stringify(value)
JsonStringify(type, ok) ==
    IF type = "bigint" \/ (type = "object" /\ ~ok) THEN Raises
    ELSE Text("json")

\* formatValue(value)
formatValue(value) ==
    IF value.type \in {"null", "undefined"} THEN Text("NULL")
    ELSE IF value.type \in {"number", "bigint"} THEN Text("1")
    ELSE IF value.type = "boolean" THEN Text("TRUE")
    ELSE IF value.type = "date"
         THEN IF value.ok THEN Text("'iso'") ELSE Raises
    ELSE IF value.type = "array"
         THEN IF \E e \in value.elems : JsonStringify(e, TRUE).kind = "throw"
              THEN Raises ELSE Text("[1]")
    ELSE IF value.type = "fragment"
         THEN IF value.ok THEN Text("sql") ELSE Text("[SQL Fragment]")
    ELSE JsonStringify(value.type, value.ok)

\* buildSqlString(strings, values): the pieces formatValue makes of the
\* values, in order (the constant strings between them are left out)
RECURSIVE buildSqlString(_)
buildSqlString(values) ==
    IF values = <<>> THEN NoText
    ELSE LET head == formatValue(Head(values))
             rest == buildSqlString(Tail(values))
         IN IF head.kind = "throw" THEN head
            ELSE IF rest.kind = "throw" THEN rest
            ELSE [head EXCEPT !.text = @ \o rest.text]

\* createSqlProxyWithMode(mode).apply, a template-literal call by t with the
\* bound values `values`: the pending result it returns, or the error it
\* throws
Query(t, mode, values) ==
    LET text == IF AttachLogging(t, mode) THEN buildSqlString(values)
                ELSE NoText
    IN [q |-> [target |-> Target(t), mode |-> mode,
               wrapped |-> AttachLogging(t, mode),
               enabled |-> sqlLoggingEnabled, text |-> text.text,
               via |-> IF mode = "default" THEN <<>> ELSE <<mode>>,
               by |-> t, how |-> "await"],
        threw |-> text.kind = "throw", err |-> text.err]

\* await sql`...` by activation t: the dispatch, up to the suspension
Dispatch(t, mode) ==
    /\ AppCode(t)
    /\ CanOperate
    /\ UseBaseSql(CallsProvider(t))
    /\ task' = IF Target(t) = NoHandle
                 THEN [task EXCEPT ![t].st = "exc", ![t].ops = @ + 1,
                                   ![t].err = ConfigError]
                 ELSE [task EXCEPT ![t].st = "waitQ", ![t].ops = @ + 1,
                                   ![t].q = Query(t, mode, <<>>).q]
    /\ UNCHANGED <<txState, txLog, db, logs, sqlLoggingEnabled, currentLogger,
                   dateStringsEnabled, tddMode, nConfigure,
                   env, closed, delivered>>

\* await sql`... ${value} ...` by activation t: the dispatch, up to the
\* suspension or to the error the dispatcher throws
DispatchValues(t, mode, value) ==
    /\ AppCode(t)
    /\ CanOperate
    /\ UseBaseSql(CallsProvider(t))
    /\ LET d == Query(t, mode, <<value>>)
       IN task' = IF Target(t) = NoHandle
                    THEN [task EXCEPT ![t].st = "exc", ![t].ops = @ + 1,
                                      ![t].err = ConfigError]
                    ELSE IF d.threw
                    THEN [task EXCEPT ![t].st = "exc", ![t].ops = @ + 1,
                                      ![t].err = d.err]
                    ELSE [task EXCEPT ![t].st = "waitQ", ![t].ops = @ + 1,
                                      ![t].q = d.q]
    /\ UNCHANGED <<txState, txLog, db, logs, sqlLoggingEnabled, currentLogger,
                   dateStringsEnabled, tddMode, nConfigure,
                   env, closed, delivered>>

\* `const pending = sql`...`` by activation t: the dispatch alone, the
\* query expression is kept for a later await
Create(t, mode) ==
    /\ AppCode(t)
    /\ CanOperate
    /\ task[t].held = NoQuery
    /\ UseBaseSql(CallsProvider(t))
    /\ task' = IF Target(t) = NoHandle
                 THEN [task EXCEPT ![t].st = "exc", ![t].ops = @ + 1,
                                   ![t].err = ConfigError]
                 ELSE [task EXCEPT ![t].ops = @ + 1,
                                   ![t].held = Query(t, mode, <<>>).q]
    /\ UNCHANGED <<txState, txLog, db, logs, sqlLoggingEnabled, currentLogger,
                   dateStringsEnabled, tddMode, nConfigure,
                   env, closed, delivered>>

\* the target is looked up again when the query expression is awaited
Pending_rebound(t, q) == [q EXCEPT !.target = Target(t)]

\* the query expression q as activation t awaits it: the object the
\* dispatch returned (the target's query, or the logging proxy around it),
\* whoever awaits it
Pending(t, q) == q

\* `await pending` by activation t, pending being the query expression
\* activation o holds
Await(t, o) ==
    /\ AppCode(t)
    /\ CanOperate
    /\ task[o].held # NoQuery
    /\ task' = [task EXCEPT ![o].held = NoQuery,
                            ![t].st = "waitQ", ![t].ops = @ + 1,
                            ![t].q = Pending(t, task[o].held)]
    /\ UNCHANGED <<txState, txLog, db, logs, baseSql, sqlLoggingEnabled,
                   currentLogger, dateStringsEnabled, tddMode, nConfigure,
                   env, detectedDbType, created, closed, delivered>>

\* `await pending.then()` or `await pending.catch()` by activation t,
\* pending being the query expression activation o holds
Observe(t, o, how) ==
    /\ AppCode(t)
    /\ CanOperate
    /\ task[o].held # NoQuery
    /\ task' = [task EXCEPT ![o].held = NoQuery,
                            ![t].st = "waitQ", ![t].ops = @ + 1,
                            ![t].q = [Pending(t, task[o].held)
                                        EXCEPT !.how = how]]
    /\ UNCHANGED <<txState, txLog, db, logs, baseSql, sqlLoggingEnabled,
                   currentLogger, dateStringsEnabled, tddMode, nConfigure,
                   env, detectedDbType, created, closed, delivered>>

\* createSqlProxyWithMode: the facet properties of a dispatcher
Facets == {"verbose", "silent"}

\* properties of the target that are read through the dispatcher
Forwarded == {"unsafe", "begin"}

\* the chains of facet accesses, as in sql.silent.verbose
Chains == UNION {[1..n -> Facets] : n \in 0..MaxChain}

\* the export: sqlProxy = createSqlProxyWithMode("default")
sqlProxy == "default"

\* a facet of a facet keeps the mode of the dispatcher it was read from
GetFacet_sticky(mode, prop) == IF mode = "default" THEN prop ELSE mode

\* createSqlProxyWithMode(mode).get, prop one of verbose and silent: the
\* mode of the dispatcher it returns
GetFacet(mode, prop) == prop

\* the mode of the dispatcher the chain of facet accesses leads to from a
\* dispatcher of mode `mode`
RECURSIVE Reach(_, _)
Reach(mode, chain) ==
    IF chain = <<>> THEN mode
    ELSE Reach(GetFacet(mode, Head(chain)), Tail(chain))

\* the property `prop` of handle h
PropertyOf(h, prop) == [of |-> h, prop |-> prop]

\* what reading a forwarded property evaluated to
Property(v) == [kind |-> "property", rows |-> {v}]

\* the dispatcher forwards to the pooled handle whatever the context
Forward_pool(t, prop) == PropertyOf(getBaseSql, prop)

\* createSqlProxyWithMode(mode).get, any other prop: Reflect.get on the
\* target resolved by this access
Forward(t, prop) == PropertyOf(Target(t), prop)

\* await sql.<chain>`...` by activation t: the dispatch through the
\* dispatcher the chain leads to
DispatchVia(t, chain) ==
    /\ AppCode(t)
    /\ CanOperate
    /\ UseBaseSql(CallsProvider(t))
    /\ task' = IF Target(t) = NoHandle
                 THEN [task EXCEPT ![t].st = "exc", ![t].ops = @ + 1,
                                   ![t].err = ConfigError]
                 ELSE [task EXCEPT ![t].st = "waitQ", ![t].ops = @ + 1,
                         ![t].q = [Query(t, Reach(sqlProxy, chain), <<>>).q
                                     EXCEPT !.via = chain]]
    /\ UNCHANGED <<txState, txLog, db, logs, sqlLoggingEnabled, currentLogger,
                   dateStringsEnabled, tddMode, nConfigure,
                   env, closed, delivered>>

\* the first argument of a call of the dispatcher as apply tells it from a
\* template-strings array: its typeof, whether it has a `raw` property, and
\* the typeof of its element 0
Arg(type, raw, first) == [type |-> type, raw |-> raw, first |-> first]

\* sql`...`, sql('users'), sql([1, 2]), sql(['a', 'b']), sql({name: 'a'})
TemplateStrings == Arg("object", TRUE, "string")
NonTemplates == {Arg("string", FALSE, "string"), Arg("object", FALSE, "number"),
                 Arg("object", FALSE, "string"),
                 Arg("object", FALSE, "undefined")}

\* every array and object counts as a template
IsTemplateCall_object(firstArg) == firstArg.type = "object"

\* createSqlProxyWithMode(mode).apply: isTemplateCall
IsTemplateCall(firstArg) ==
    /\ firstArg.type = "object"
    /\ firstArg.raw
    /\ firstArg.first = "string"

\* what a call of the dispatcher that is no template-literal call evaluated
\* to: the fragment the target made of the argument, and whether apply took
\* it through buildSqlString and createLoggingProxy
Fragment(target, wrapped) ==
    [kind |-> "fragment", rows |-> {[of |-> target, wrapped |-> wrapped]}]

\* activation t evaluates sql.<chain>(firstArg, ...) without awaiting the
\* result: a template-literal call leaves the query expression to be
\* awaited later, any other call a fragment to build queries from
Invoke(t, chain, firstArg) ==
    /\ AppCode(t)
    /\ CanOperate
    /\ task[t].held = NoQuery
    /\ UseBaseSql(CallsProvider(t))
    /\ LET mode == Reach(sqlProxy, chain)
           wrapped == AttachLogging(t, mode) /\ IsTemplateCall(firstArg)
       IN task' =
            IF Target(t) = NoHandle
            THEN [task EXCEPT ![t].st = "exc", ![t].ops = @ + 1,
                              ![t].err = ConfigError]
            ELSE IF firstArg = TemplateStrings
            THEN [task EXCEPT ![t].ops = @ + 1,
                    ![t].held = [Query(t, mode, <<>>).q
                                   EXCEPT !.via = chain, !.wrapped = wrapped]]
            ELSE [task EXCEPT ![t].ops = @ + 1,
                              ![t].got = Fragment(Target(t), wrapped)]
    /\ UNCHANGED <<txState, txLog, db, logs, sqlLoggingEnabled, currentLogger,
                   dateStringsEnabled, tddMode, nConfigure,
                   env, closed, delivered>>

\* activation t reads sql.<chain>, a chain of one facet or more, and keeps
\* the dispatcher it evaluates to
ReadFacet(t, chain) ==
    /\ AppCode(t)
    /\ CanOperate
    /\ chain # <<>>
    /\ UseBaseSql(FALSE)
    /\ task' = [task EXCEPT
                  ![t].ops = @ + 1,
                  ![t].got = [kind |-> "dispatcher",
                              rows |-> {Reach(sqlProxy, chain)}]]
    /\ UNCHANGED <<txState, txLog, db, logs, sqlLoggingEnabled, currentLogger,
                   dateStringsEnabled, tddMode, nConfigure,
                   env, closed, delivered>>

\* activation t reads sql.<chain>.<prop>
ReadProperty(t, chain, prop) ==
    /\ AppCode(t)
    /\ CanOperate
    /\ UseBaseSql(CallsProvider(t))
    /\ task' = IF Target(t) = NoHandle
                 THEN [task EXCEPT ![t].st = "exc", ![t].ops = @ + 1,
                                   ![t].err = ConfigError]
                 ELSE [task EXCEPT ![t].ops = @ + 1,
                                   ![t].got = Property(Forward(t, prop))]
    /\ UNCHANGED <<txState, txLog, db, logs, sqlLoggingEnabled, currentLogger,
                   dateStringsEnabled, tddMode, nConfigure,
                   env, closed, delivered>>

\* can the handle still execute a statement
Usable(h) == IF h.kind = "tx" THEN txState[h.id] = "open" ELSE h = baseSql

\* the suppression flag silences every mode
LogSuccess_skipped(t, q) == q.wrapped /\ ~isSqlLoggingSkipped(t)

\* the handler looks at the global logging flag again
LogSuccess_resampled(t, q) ==
    /\ q.wrapped
    /\ \/ q.mode = "verbose"
       \/ q.mode = "default" /\ sqlLoggingEnabled /\ ~isSqlLoggingSkipped(t)

\* createLoggingProxy.then, onFulfilled: is the success logged
LogSuccess(t, q) ==
    /\ q.wrapped
    /\ \/ q.mode = "verbose"
       \/ q.mode = "default" /\ ~isSqlLoggingSkipped(t)

\* createLoggingProxy.then, onRejected: is the failure logged
LogFailure(t, q) == q.wrapped

\* the catch override goes through the then override and logs as well
ErrorCalls_chained(q) ==
    IF ~q.wrapped THEN 0 ELSE IF q.how = "catch" THEN 2 ELSE 1

\* createLoggingProxy, the rejection handlers of the then and the catch
\* override: the calls of logError one rejection of q makes.  `await q` and
\* q.then() go through the then override; q.catch() goes through the catch
\* override, which calls catch on the query itself, not on the proxy.
ErrorCalls(q) == IF ~q.wrapped THEN 0 ELSE 1

\* the handler logs and hands on nothing
OnFulfilled_dropped(res) == NoValue

\* createLoggingProxy.then, onFulfilled: what is handed on to the awaiting
\* continuation when the target resolved with res
OnFulfilled(res) == res

\* createLoggingProxy.then, onRejected: what is thrown into the awaiting
\* continuation when the target rejected with error
OnRejected(error) == error

\* what `await` of the pending result q evaluates to when the target
\* resolves with res
Awaited(q, res) == IF q.wrapped THEN OnFulfilled(res) ELSE res

\* what `await` of the pending result q throws when the target rejects with
\* error
AwaitedError(q, error) == IF q.wrapped THEN OnRejected(error) ELSE error

\* logQuery: the logger function the success entry is handed to
logQuery ==
    IF env.prod THEN [logger |-> currentLogger, fn |-> "info"]
    ELSE IF env.test THEN [logger |-> "globalThis.console", fn |-> "log"]
    ELSE [logger |-> currentLogger, fn |-> "info"]

\* logError: the logger function the failure entry is handed to
logError ==
    IF env.test THEN [logger |-> "globalThis.console", fn |-> "error"]
    ELSE [logger |-> currentLogger, fn |-> "error"]

\* the record of one delivery: entry n of activation t went to `sink`
Delivery(t, n, sink) ==
    [t |-> t, n |-> n, logger |-> sink.logger, fn |-> sink.fn]

\* the awaited query of t succeeds: the row is written through the target
\* and the continuation of t runs
SettleOk(t) ==
    /\ task[t].st = "waitQ"
    /\ Usable(task[t].q.target)
    /\ LET q == task[t].q
           row == [t |-> t, n |-> task[t].ops, via |-> q.target]
       IN /\ IF q.target.kind = "tx"
               THEN /\ txLog' = [txLog EXCEPT ![q.target.id] = Append(@, row)]
                    /\ db' = db
               ELSE /\ db' = db \cup {row}
                    /\ txLog' = txLog
          /\ logs' = IF LogSuccess(t, q)
                       THEN logs \cup {[t |-> t, n |-> task[t].ops, level |-> "info"]}
                       ELSE logs
          /\ delivered' = IF LogSuccess(t, q)
                            THEN delivered \cup {Delivery(t, task[t].ops, logQuery)}
                            ELSE delivered
    /\ task' = [task EXCEPT
          ![t].st = "run", ![t].q = NoQuery,
          ![t].got = Awaited(task[t].q,
                             QueryResult({[t |-> t, n |-> task[t].ops,
                                           via |-> task[t].q.target]})),
          ![t].store = StoreAfterAwait(t)]
    /\ UNCHANGED <<txState, baseSql, sqlLoggingEnabled, currentLogger,
                   dateStringsEnabled, tddMode, nConfigure,
                   env, detectedDbType, created, closed>>

\* the awaited query of t fails (always so on a closed handle): nothing is
\* written and the error is thrown into t
SettleFail(t) ==
    /\ task[t].st = "waitQ"
    /\ logs' = IF LogFailure(t, task[t].q)
                 THEN logs \cup {[t |-> t, n |-> task[t].ops, level |-> "error"]}
                 ELSE logs
    /\ delivered' = IF LogFailure(t, task[t].q)
                      THEN delivered \cup {Delivery(t, task[t].ops, logError)}
                      ELSE delivered
    /\ task' = [task EXCEPT ![t].st = "exc",
                            ![t].err = AwaitedError(task[t].q, QueryError),
                            ![t].nLogError = ErrorCalls(task[t].q),
                            ![t].q = NoQuery, ![t].store = StoreAfterAwait(t)]
    /\ UNCHANGED <<txState, txLog, db, baseSql, sqlLoggingEnabled,
                   currentLogger, dateStringsEnabled, tddMode, nConfigure,
                   env, detectedDbType, created, closed>>

\* ------------------------------------------------------- cursor pagination
\* a row present before the run, with cursor-column value k
Seed(k) == [t |-> 0, n |-> k, via |-> PoolHandle(0)]

\* a second row present before the run with the same cursor-column value k
Twin(k) == [t |-> -1, n |-> k, via |-> PoolHandle(0)]

\* the values of options.cursor a run passes
Cursors == {NullCursor} \cup {Cursor(v) : v \in 0..MaxSeq + 1}
Limits == 1..MaxLimit

\* the rows a query of t through its target reads: the committed ones, and
\* inside a transaction those written through its handle
Visible(t) ==
    db \cup (IF getTx(t) # NoHandle THEN Rows(txLog[getTx(t).id]) ELSE {})

\* ORDER BY <cursorColumn> <direction>: the cursor-column values of `rows`
\* in that order, one for each row
RECURSIVE OrderBy(_, _)
OrderBy(rows, isDesc) ==
    IF rows = {} THEN <<>>
    ELSE LET first == CHOOSE r \in rows :
                        \A o \in rows : IF isDesc THEN r.n >= o.n
                                         ELSE r.n <= o.n
         IN <<first.n>> \o OrderBy(rows \ {first}, isDesc)

\* LIMIT n
Limit(seq, n) == SubSeq(seq, 1, IF n < Len(seq) THEN n ELSE Len(seq))

\* what a call of cursorPaginate evaluated to
Page(data, nextCursor) ==
    [kind |-> "page", rows |-> {[data |-> data, nextCursor |-> nextCursor]}]

\* the next cursor is read from the extra row fetched to detect a next page
cursorPaginate_extra(rows, cursor, limitValue, isDesc) ==
    LET matching == IF cursor.isNull THEN rows
                    ELSE {r \in rows : IF isDesc THEN r.n < cursor.v
                                       ELSE r.n > cursor.v}
        result == Limit(OrderBy(matching, isDesc), limitValue + 1)
        hasNextPage == Len(result) > limitValue
        items == IF hasNextPage THEN SubSeq(result, 1, Len(result) - 1)
                 ELSE result
    IN Page(items, IF hasNextPage THEN Cursor(result[Len(result)])
                   ELSE NullCursor)

\* the cursor condition is written with <= and >=
cursorPaginate_inclusive(rows, cursor, limitValue, isDesc) ==
    LET matching == IF cursor.isNull THEN rows
                    ELSE {r \in rows : IF isDesc THEN r.n <= cursor.v
                                       ELSE r.n >= cursor.v}
        result == Limit(OrderBy(matching, isDesc), limitValue + 1)
        hasNextPage == Len(result) > limitValue
        items == IF hasNextPage THEN SubSeq(result, 1, Len(result) - 1)
                 ELSE result
    IN Page(items, IF hasNextPage THEN Cursor(items[Len(items)])
                   ELSE NullCursor)

\* DB.cursorPaginate(baseQuery, {cursorColumn, cursor, limit, isDesc}) over
\* the rows baseQuery matches; a row of the result is named by its
\* cursor-column value
cursorPaginate(rows, cursor, limitValue, isDesc) ==
    LET matching == IF cursor.isNull THEN rows
                    ELSE {r \in rows : IF isDesc THEN r.n < cursor.v
                                       ELSE r.n > cursor.v}
        result == Limit(OrderBy(matching, isDesc), limitValue + 1)
        hasNextPage == Len(result) > limitValue
        items == IF hasNextPage THEN SubSeq(result, 1, Len(result) - 1)
                 ELSE result
    IN Page(items, IF hasNextPage THEN Cursor(items[Len(items)])
                   ELSE NullCursor)

\* t calls `await DB.cursorPaginate(sql`SELECT ... WHERE ...`, options)`
\* with a base query that matches every row
CursorPaginate(t, cursor, limitValue, isDesc) ==
    /\ AppCode(t)
    /\ CanOperate
    /\ UseBaseSql(CallsProvider(t))
    /\ LET q == Query(t, "default", <<>>).q
           logged == Target(t) # NoHandle /\ LogSuccess(t, q)
       IN /\ task' =
               IF Target(t) = NoHandle
               THEN [task EXCEPT ![t].st = "exc", ![t].ops = @ + 1,
                                 ![t].err = ConfigError]
               ELSE [task EXCEPT ![t].ops = @ + 1,
                       ![t].got = cursorPaginate(Visible(t), cursor,
                                                 limitValue, isDesc)]
          /\ logs' = IF logged
                       THEN logs \cup {[t |-> t, n |-> task[t].ops + 1,
                                        level |-> "info"]}
                       ELSE logs
          /\ delivered' = IF logged
                            THEN delivered
                                 \cup {Delivery(t, task[t].ops + 1, logQuery)}
                            ELSE delivered
    /\ UNCHANGED <<txState, txLog, db, sqlLoggingEnabled, currentLogger,
                   dateStringsEnabled, tddMode, nConfigure, env, closed>>

\* ------------------------------------------------------- offset pagination
\* options.page and options.row as the caller gives them: left out
\* ("undefined"), the number v, the decimal string of v ("string") or the
\* empty string ("empty")
Option(kind, v) == [kind |-> kind, v |-> v]

\* Number(value)
ToNumber(o) ==
    IF o.kind = "undefined" THEN [nan |-> TRUE, v |-> 0]
    ELSE IF o.kind = "empty" THEN [nan |-> FALSE, v |-> 0]
    ELSE [nan |-> FALSE, v |-> o.v]

\* what a call of paginate evaluated to
Paged(data, totalRow) ==
    [kind |-> "paged", rows |-> {[data |-> data, totalRow |-> totalRow]}]

\* a row of the result, named by its cursor-column value; indexed: has it
\* been given the pagingIndex property
Item(v, indexed, pagingIndex) ==
    [n |-> v, indexed |-> indexed, pagingIndex |-> pagingIndex]

\* the offset is computed from a page number counted from 0
paginate_fromZero(rows, page, row) ==
    LET pageValue == IF ToNumber(page).nan \/ ToNumber(page).v = 0 THEN 1
                     ELSE ToNumber(page).v
        rowValue == IF row.kind \notin {"undefined", "empty"}
                    THEN ToNumber(row).v ELSE 10
        offsetValue == pageValue * rowValue
        totalRow == Cardinality(rows)
        all == OrderBy(rows, FALSE)
        last == IF offsetValue + rowValue < Len(all)
                THEN offsetValue + rowValue ELSE Len(all)
        dataResult == SubSeq(all, offsetValue + 1, last)
    IN IF rowValue = 0
       THEN Paged([i \in 1..Len(all) |-> Item(all[i], FALSE, 0)], totalRow)
       ELSE Paged([i \in 1..Len(dataResult) |->
                     Item(dataResult[i], TRUE,
                          totalRow - offsetValue - (i - 1))],
                  totalRow)

\* DB.paginate(baseQuery, {page, row}) over the rows a base query
\* `... ORDER BY seq` matches
paginate(rows, page, row) ==
    LET pageValue == IF ToNumber(page).nan \/ ToNumber(page).v = 0 THEN 1
                     ELSE ToNumber(page).v
        rowValue == IF row.kind \notin {"undefined", "empty"}
                    THEN ToNumber(row).v ELSE 10
        offsetValue == (pageValue - 1) * rowValue
        totalRow == Cardinality(rows)
        all == OrderBy(rows, FALSE)
        last == IF offsetValue + rowValue < Len(all)
                THEN offsetValue + rowValue ELSE Len(all)
        dataResult == SubSeq(all, offsetValue + 1, last)
    IN IF rowValue = 0
       THEN Paged([i \in 1..Len(all) |-> Item(all[i], FALSE, 0)], totalRow)
       ELSE Paged([i \in 1..Len(dataResult) |->
                     Item(dataResult[i], TRUE,
                          totalRow - offsetValue - (i - 1))],
                  totalRow)

\* t calls `await DB.paginate(sql`SELECT ... ORDER BY seq`, {page, row})`:
\* the count query and the data query are dispatched in default mode and
\* awaited one after the other
Paginate(t, page, row) ==
    /\ AppCode(t)
    /\ CanOperate
    /\ UseBaseSql(CallsProvider(t))
    /\ LET q == Query(t, "default", <<>>).q
           logged == Target(t) # NoHandle /\ LogSuccess(t, q)
           entries == {task[t].ops + 1, task[t].ops + 2}
       IN /\ task' =
               IF Target(t) = NoHandle
               THEN [task EXCEPT ![t].st = "exc", ![t].ops = @ + 1,
                                 ![t].err = ConfigError]
               ELSE [task EXCEPT ![t].ops = @ + 2,
                                 ![t].got = paginate(Visible(t), page, row)]
          /\ logs' = IF logged
                       THEN logs \cup {[t |-> t, n |-> n, level |-> "info"] :
                                         n \in entries}
                       ELSE logs
          /\ delivered' = IF logged
                            THEN delivered
                                 \cup {Delivery(t, n, logQuery) : n \in entries}
                            ELSE delivered
    /\ UNCHANGED <<txState, txLog, db, sqlLoggingEnabled, currentLogger,
                   dateStringsEnabled, tddMode, nConfigure, env, closed>>

\* the values of options.page and of options.row a run passes
PageOptions ==
    {Option("undefined", 0), Option("empty", 0)}
      \cup {Option(k, v) : k \in {"number", "string"}, v \in 0..MaxPage}
RowOptions ==
    {Option("undefined", 0), Option("empty", 0)}
      \cup {Option(k, v) : k \in {"number", "string"}, v \in 0..MaxRow}

\* t runs one iteration of the loop that reads a table page by page,
\*   do { page = await DB.cursorPaginate(query, {cursorColumn, cursor, limit,
\*        isDesc}); rows.push(...page.data); cursor = page.nextCursor }
\*   while (cursor !== null)
\* begun with cursor = null
Traverse(t, limitValue, isDesc) ==
    /\ AppCode(t)
    /\ task[t].walk.st # "done"
    /\ task[t].walk.pages < MaxPages
    /\ task[t].walk.st = "open"
          => limitValue = task[t].walk.limit /\ isDesc = task[t].walk.isDesc
    /\ UseBaseSql(CallsProvider(t))
    /\ LET w == task[t].walk
           q == Query(t, "default", <<>>).q
           logged == Target(t) # NoHandle /\ LogSuccess(t, q)
           result == cursorPaginate(Visible(t), w.cursor, limitValue, isDesc)
           page == CHOOSE p \in result.rows : TRUE
       IN /\ task' =
               IF Target(t) = NoHandle
               THEN [task EXCEPT ![t].st = "exc", ![t].ops = @ + 1,
                                 ![t].err = ConfigError]
               ELSE [task EXCEPT ![t].ops = @ + 1,
                       ![t].got = result,
                       ![t].walk =
                          [st |-> IF page.nextCursor.isNull THEN "done"
                                  ELSE "open",
                           limit |-> limitValue, isDesc |-> isDesc,
                           cursor |-> page.nextCursor,
                           seen |-> w.seen \o page.data,
                           pages |-> w.pages + 1]]
          /\ logs' = IF logged
                       THEN logs \cup {[t |-> t, n |-> task[t].ops + 1,
                                        level |-> "info"]}
                       ELSE logs
          /\ delivered' = IF logged
                            THEN delivered
                                 \cup {Delivery(t, task[t].ops + 1, logQuery)}
                            ELSE delivered
    /\ UNCHANGED <<txState, txLog, db, sqlLoggingEnabled, currentLogger,
                   dateStringsEnabled, tddMode, nConfigure, env, closed>>

\* ------------------------------------------------------- transaction scope
\* the derived store is built from nothing
SkippedStore_fresh(t) == [EmptyStore EXCEPT !.skipSqlLogging = TRUE]

\* withSkippedSqlLogging(fn): the store fn runs in
SkippedStore(t) == [getDbContext(t) EXCEPT !.skipSqlLogging = TRUE]

\* the wrapper always opens a transaction of its own
Reuses_never(t) == FALSE

\* Transactional: does the wrapper, called by t, reuse the ambient transaction
Reuses(t) == getTx(t) # NoHandle

\* Transactional: the store the original method runs in when the wrapper,
\* called by t, is activation c
TxnStore(t, c) ==
    IF Reuses(t) THEN getStore(t)
    ELSE [getDbContext(t) EXCEPT !.tx = TxHandle(c)]

\* the store given to run stays installed in the caller
StoreAfterRun_entered(t, inner) == inner

\* dbContextStorage.run(inner, fn), called by t: the store of t once run has
\* returned the promise of fn
StoreAfterRun(t, inner) == getStore(t)

\* t calls a @Transactional method (kind "txn") or withSkippedSqlLogging(fn)
\* (kind "skip"), and either awaits it at once or lets it run concurrently
Call(t, kind, awaited) ==
    /\ AppCode(t)
    /\ CanOperate
    /\ HasFree
    /\ LET c == FreeId
           opens == kind = "txn" /\ ~Reuses(t)
           fails == opens /\ getBaseSql = NoHandle
           inner == IF kind = "skip" THEN SkippedStore(t)
                    ELSE IF fails THEN getStore(t)
                    ELSE TxnStore(t, c)
       IN /\ task' = [task EXCEPT
                ![t].ops = @ + 1,
                ![t].st = IF awaited THEN "waitT" ELSE "run",
                ![t].waitOn = IF awaited THEN c ELSE 0,
                ![t].store = StoreAfterRun(t, inner),
                ![c] = [FreeTask EXCEPT
                          !.st = IF fails THEN "done" ELSE "run",
                          !.kind = kind, !.parent = t,
                          !.joined = awaited,
                          !.isTddMode = opens /\ tddMode,
                          !.outcome = IF fails THEN Thrown(ConfigError)
                                      ELSE NoOutcome,
                          !.store = inner]]
          /\ txState' = IF opens /\ ~fails
                          THEN [txState EXCEPT ![c] = "open"] ELSE txState
          /\ UseBaseSql(opens)
    /\ UNCHANGED <<txLog, db, logs, sqlLoggingEnabled, currentLogger,
                   dateStringsEnabled, tddMode, nConfigure,
                   env, closed, delivered>>

\* ---- DB helpers
Helpers == {"many", "maybeOne", "insert", "update", "delete"}

\* options?.logging
LoggingOption == {"undefined", "true", "false"}

\* the option is not looked at
SkipsLogging_never(logging) == FALSE

\* DB.many / maybeOne / insert / update / delete: does the helper run
\* executeFn inside withSkippedSqlLogging
SkipsLogging(logging) == logging = "false"

\* t calls `await DB.<helper>(sql`...`, { logging })`: the query is
\* dispatched in the context of t, then executeFn, started by the helper
\* directly or through withSkippedSqlLogging, awaits it
Helper(t, helper, mode, logging) ==
    /\ AppCode(t)
    /\ CanOperate
    /\ HasFree
    /\ UseBaseSql(CallsProvider(t))
    /\ LET c == FreeId
           inner == IF SkipsLogging(logging) THEN SkippedStore(t)
                    ELSE getStore(t)
       IN task' = IF Target(t) = NoHandle
                    THEN [task EXCEPT ![t].st = "exc", ![t].ops = @ + 1,
                                      ![t].err = ConfigError]
                    ELSE [task EXCEPT
             ![t].ops = @ + 1,
             ![t].st = "waitT",
             ![t].waitOn = c,
             ![t].store = StoreAfterRun(t, inner),
             ![c] = [FreeTask EXCEPT
                       !.st = "waitQ", !.parent = t, !.joined = TRUE,
                       !.kind = IF SkipsLogging(logging) THEN "skip" ELSE "fn",
                       !.helper = helper, !.logging = logging,
                       !.store = inner,
                       !.q = Query(t, mode, <<>>).q]]
    /\ UNCHANGED <<txState, txLog, db, logs, sqlLoggingEnabled, currentLogger,
                   dateStringsEnabled, tddMode, nConfigure,
                   env, closed, delivered>>

\* t awaits an activation it started earlier and has not awaited yet
Join(t, c) ==
    /\ task[t].st = "run"
    /\ task[c].st # "free"
    /\ task[c].parent = t
    /\ ~task[c].joined
    /\ task' = [task EXCEPT ![t].st = "waitT", ![t].waitOn = c,
                            ![c].joined = TRUE]
    /\ UNCHANGED <<txState, txLog, db, logs, baseSql, sqlLoggingEnabled,
                   currentLogger, dateStringsEnabled, tddMode, nConfigure,
                   env, detectedDbType, created, closed, delivered>>

\* the activation t awaits has settled: t continues, or the error is thrown
\* into it
Resume(t) ==
    /\ task[t].st = "waitT"
    /\ task[task[t].waitOn].st = "done"
    /\ LET o == task[task[t].waitOn].outcome
       IN task' = [task EXCEPT
             ![t].st = IF o.kind = "ret" THEN "run" ELSE "exc",
             ![t].err = IF o.kind = "ret" THEN Undefined ELSE o.val,
             ![t].waitOn = 0,
             ![t].store = StoreAfterAwait(t)]
    /\ UNCHANGED <<txState, txLog, db, logs, baseSql, sqlLoggingEnabled,
                   currentLogger, dateStringsEnabled, tddMode, nConfigure,
                   env, detectedDbType, created, closed, delivered>>

\* Transactional, begin callback: `throw { __tddRollback: true, result }`
TddRollback(result) == JsVal("object", {"__tddRollback", "result"}, result.t)

\* the callback raises the rollback signal in either mode
Callback_always(t, o) ==
    IF o.kind = "ret" THEN Thrown(TddRollback(o.val)) ELSE o

\* Transactional, begin callback: how the callback settles when the original
\* method settled as o
Callback(t, o) ==
    IF o.kind = "ret" /\ task[t].isTddMode THEN Thrown(TddRollback(o.val)) ELSE o

\* the handler tests `error.result !== undefined` instead of `'result' in error`
IsTddRollback_defined(error) ==
    /\ Truthy(error)
    /\ TypeOf(error) = "object"
    /\ HasProp(error, "__tddRollback")
    /\ ResultOf(error) # Undefined

\* Transactional, catch handler: is the rejection the rollback signal
IsTddRollback(error) ==
    /\ Truthy(error)
    /\ TypeOf(error) = "object"
    /\ HasProp(error, "__tddRollback")
    /\ HasProp(error, "result")

\* the handler takes every object marked __tddRollback for the signal
CatchHandler_marker(error) ==
    IF Truthy(error) /\ TypeOf(error) = "object" /\ HasProp(error, "__tddRollback")
    THEN Returned(ResultOf(error)) ELSE Thrown(error)

\* Transactional, catch handler: how the wrapper settles when begin rejected
CatchHandler(error) ==
    IF IsTddRollback(error) THEN Returned(ResultOf(error)) ELSE Thrown(error)

\* a nested @Transactional call that fails takes back, as a savepoint would,
\* the rows it wrote
Finish_savepoint(t, o) ==
    LET undo == /\ o.kind = "throw"
                /\ task[t].kind = "txn"
                /\ txState[t] = "none"
        Keep(r) == r.t # t
    IN /\ task' = [task EXCEPT
             ![t].body = o,
             ![t].err = Undefined,
             ![t].st = IF txState[t] = "open" THEN "closing" ELSE "done",
             ![t].cb = IF txState[t] = "open" THEN Callback(t, o)
                       ELSE NoOutcome,
             ![t].outcome = IF txState[t] = "open" THEN NoOutcome ELSE o]
       /\ txLog' = IF undo THEN [h \in Tasks |-> SelectSeq(txLog[h], Keep)]
                   ELSE txLog
       /\ UNCHANGED <<txState, db, logs, baseSql, sqlLoggingEnabled,
                      currentLogger, dateStringsEnabled, tddMode, nConfigure,
                      env, detectedDbType, created, closed, delivered>>

\* forced-rollback mode is tested before the ambient transaction is: a nested
\* @Transactional call raises the rollback signal too
Finish_nestedSignal(t, o) ==
    LET nested == task[t].kind = "txn" /\ txState[t] = "none"
        signal == IF o.kind = "ret" /\ tddMode /\ nested
                  THEN Thrown(TddRollback(o.val)) ELSE o
    IN /\ task' = [task EXCEPT
             ![t].body = o,
             ![t].err = Undefined,
             ![t].st = IF txState[t] = "open" THEN "closing" ELSE "done",
             ![t].cb = IF txState[t] = "open" THEN Callback(t, o)
                       ELSE NoOutcome,
             ![t].outcome = IF txState[t] = "open" THEN NoOutcome ELSE signal]
       /\ UNCHANGED <<txState, txLog, db, logs, baseSql, sqlLoggingEnabled,
                      currentLogger, dateStringsEnabled, tddMode, nConfigure,
                      env, detectedDbType, created, closed, delivered>>

\* the body of activation t settles as o.  An activation that opened a
\* transaction hands o to begin; any other one settles with it.
Finish(t, o) ==
    /\ task' = [task EXCEPT
          ![t].body = o,
          ![t].err = Undefined,
          ![t].st = IF txState[t] = "open" THEN "closing" ELSE "done",
          ![t].cb = IF txState[t] = "open" THEN Callback(t, o) ELSE NoOutcome,
          ![t].outcome = IF txState[t] = "open" THEN NoOutcome ELSE o]
    /\ UNCHANGED <<txState, txLog, db, logs, baseSql, sqlLoggingEnabled,
                   currentLogger, dateStringsEnabled, tddMode, nConfigure,
                   env, detectedDbType, created, closed, delivered>>

\* the body of t returns v
Return(t, v) == task[t].st = "run" /\ Finish(t, Returned(v))

\* the body of t throws e
Throw(t, e) == task[t].st = "run" /\ Finish(t, Thrown(e))

\* the body of t lets the failure of what it awaited escape
Rethrow(t) == task[t].st = "exc" /\ Finish(t, Thrown(task[t].err))

\* the body of t catches the failure of what it awaited and goes on
Catch(t) ==
    /\ task[t].st = "exc"
    /\ task' = [task EXCEPT ![t].st = "run", ![t].err = Undefined]
    /\ UNCHANGED <<txState, txLog, db, logs, baseSql, sqlLoggingEnabled,
                   currentLogger, dateStringsEnabled, tddMode, nConfigure,
                   env, detectedDbType, created, closed, delivered>>

\* baseSql.begin: the callback resolved, the transaction commits and the
\* wrapper resolves with the callback's value
Commit(t) ==
    /\ task[t].st = "closing"
    /\ task[t].cb.kind = "ret"
    /\ txState' = [txState EXCEPT ![t] = "committed"]
    /\ db' = db \cup Rows(txLog[t])
    /\ task' = [task EXCEPT ![t].st = "done", ![t].outcome = task[t].cb]
    /\ UNCHANGED <<txLog, logs, baseSql, sqlLoggingEnabled, currentLogger,
                   dateStringsEnabled, tddMode, nConfigure,
                   env, detectedDbType, created, closed, delivered>>

\* the scope answers a genuine error by running the unit of work again
Rollback_retry(t) ==
    /\ task[t].st = "closing"
    /\ task[t].cb.kind = "throw"
    /\ txState' = IF IsTddRollback(task[t].cb.val)
                    THEN [txState EXCEPT ![t] = "rolledback"]
                    ELSE [txState EXCEPT ![t] = "open"]
    /\ task' = IF IsTddRollback(task[t].cb.val)
                 THEN [task EXCEPT ![t].st = "done",
                                   ![t].outcome = CatchHandler(task[t].cb.val)]
                 ELSE [task EXCEPT ![t].st = "run", ![t].cb = NoOutcome,
                                   ![t].body = NoOutcome]
    /\ UNCHANGED <<txLog, db, logs, baseSql, sqlLoggingEnabled, currentLogger,
                   dateStringsEnabled, tddMode, nConfigure,
                   env, detectedDbType, created, closed, delivered>>

\* baseSql.begin: the callback rejected, the transaction rolls back, begin
\* rejects and the catch handler settles the wrapper
Rollback(t) ==
    /\ task[t].st = "closing"
    /\ task[t].cb.kind = "throw"
    /\ txState' = [txState EXCEPT ![t] = "rolledback"]
    /\ task' = [task EXCEPT ![t].st = "done",
                            ![t].outcome = CatchHandler(task[t].cb.val)]
    /\ UNCHANGED <<txLog, db, logs, baseSql, sqlLoggingEnabled, currentLogger,
                   dateStringsEnabled, tddMode, nConfigure,
                   env, detectedDbType, created, closed, delivered>>

\* ----------------------------------------------------------- specifications
Kinds == {"txn", "skip"}

Next ==
    \/ \E l \in LoggingOptions, d \in DateStringsOptions : configureDb(l, d)
    \/ \E e \in Envs : SetEnv(e)
    \/ resetConnection
    \/ \E t \in Tasks : GetBaseSql(t) \/ GetDbType(t)
    \/ \E t \in Tasks, chain \in Chains : DispatchVia(t, chain)
    \/ \E t \in Tasks, chain \in Chains, prop \in Forwarded :
          ReadProperty(t, chain, prop)
    \/ \E t \in Tasks, chain \in Chains : ReadFacet(t, chain)
    \/ \E t \in Tasks, chain \in Chains,
          firstArg \in NonTemplates \cup {TemplateStrings} :
          Invoke(t, chain, firstArg)
    \/ \E t \in Tasks, c \in Cursors, l \in Limits, d \in BOOLEAN :
          CursorPaginate(t, c, l, d)
    \/ \E t \in Tasks, l \in Limits, d \in BOOLEAN : Traverse(t, l, d)
    \/ \E t \in Tasks, page \in PageOptions, row \in RowOptions :
          Paginate(t, page, row)
    \/ \E t \in Tasks, m \in Modes : Dispatch(t, m)
    \/ \E t \in Tasks, m \in Modes, v \in ParamValues : DispatchValues(t, m, v)
    \/ \E t \in Tasks, m \in Modes : Create(t, m)
    \/ \E t, o \in Tasks : Await(t, o)
    \/ \E t, o \in Tasks, how \in {"then", "catch"} : Observe(t, o, how)
    \/ \E t \in Tasks, h \in Helpers, m \in Modes, l \in LoggingOption :
          Helper(t, h, m, l)
    \/ \E t \in Tasks : SettleOk(t)
    \/ \E t \in Tasks : SettleFail(t)
    \/ \E t \in Tasks, k \in Kinds, a \in BOOLEAN : Call(t, k, a)
    \/ \E t, c \in Tasks : Join(t, c)
    \/ \E t \in Tasks : Resume(t)
    \/ \E t \in Tasks, v \in Returnable : Return(t, v)
    \/ \E t \in Tasks, e \in Throwable : Throw(t, e)
    \/ \E t \in Tasks : Rethrow(t)
    \/ \E t \in Tasks : Catch(t)
    \/ \E t \in Tasks : Commit(t)
    \/ \E t \in Tasks : Rollback(t)

Init == InitWith(Roots, MaxTasks)

\* every operation, with every input
Spec == Init /\ [][Next]_vars

\* One call chain and its transaction scopes: nested and concurrent
\* @Transactional calls, every value a unit of work returns or throws,
\* failing queries, forced-rollback mode on and off.  Logging stays as the
\* module sets it up (disabled).
InitScope == InitWith({1}, ScopeTasks)

NextScope ==
    \/ \E t \in Tasks : Dispatch(t, "default")
    \/ \E t \in Tasks : SettleOk(t)
    \/ \E t \in Tasks : SettleFail(t)
    \/ \E t \in Tasks, a \in BOOLEAN : Call(t, "txn", a)
    \/ \E t, c \in Tasks : Join(t, c)
    \/ \E t \in Tasks : Resume(t)
    \/ \E t \in Tasks, v \in Returnable : Return(t, v)
    \/ \E t \in Tasks, e \in Throwable : Throw(t, e)
    \/ \E t \in Tasks : Rethrow(t)
    \/ \E t \in Tasks : Catch(t)
    \/ \E t \in Tasks : Commit(t)
    \/ \E t \in Tasks : Rollback(t)

SpecScope == InitScope /\ [][NextScope]_vars

\* The scopes of one call chain, each awaited by its caller, under the
\* scheduling of the runtime: once the callback handed to begin has settled, the continuation that commits or rolls back and
\* settles the wrapper is a queued job, and the event loop runs every queued
\* job.
ScopeFairness ==
    \A t \in Tasks : WF_vars(Commit(t)) /\ WF_vars(Rollback(t))

NextScopeLive ==
    \/ \E t \in Tasks : Dispatch(t, "default")
    \/ \E t \in Tasks : SettleOk(t)
    \/ \E t \in Tasks : SettleFail(t)
    \/ \E t \in Tasks : Call(t, "txn", TRUE)
    \/ \E t \in Tasks : Resume(t)
    \/ \E t \in Tasks, v \in Returnable : Return(t, v)
    \/ \E t \in Tasks, e \in Throwable : Throw(t, e)
    \/ \E t \in Tasks : Rethrow(t)
    \/ \E t \in Tasks : Catch(t)
    \/ \E t \in Tasks : Commit(t)
    \/ \E t \in Tasks : Rollback(t)

SpecScopeLive == InitScope /\ [][NextScopeLive]_vars /\ ScopeFairness

\* Several call chains interleaved at every suspension point: dispatches in
\* the three modes, awaited @Transactional and withSkippedSqlLogging calls,
\* units of work that fail, the global logging flag switched by configureDb.
InitChains == InitWith(Roots, MaxTasks)

NextChains ==
    \/ \E b \in BOOLEAN : configureDb(Logging(b, "undefined"), "undefined")
    \/ \E t \in Tasks, m \in Modes : Dispatch(t, m)
    \/ \E t \in Tasks : SettleOk(t)
    \/ \E t \in Tasks, k \in Kinds : Call(t, k, TRUE)
    \/ \E t \in Tasks : Resume(t)
    \/ \E t \in Tasks : Return(t, Undefined)
    \/ \E t \in Tasks : Throw(t, PlainError)
    \/ \E t \in Tasks : Rethrow(t)
    \/ \E t \in Tasks : Commit(t)
    \/ \E t \in Tasks : Rollback(t)

SpecChains == InitChains /\ [][NextChains]_vars

\* One call chain and the logging of its queries: dispatches in the three
\* modes with and without a bound value, queries that succeed and queries
\* that fail, awaited @Transactional and withSkippedSqlLogging calls,
\* failures caught by the caller, the global logging flag switched by
\* configureDb.
InitOverlay == InitWith({1}, ScopeTasks)

NextOverlay ==
    \/ \E b \in BOOLEAN : configureDb(Logging(b, "undefined"), "undefined")
    \/ \E t \in Tasks, m \in Modes : Dispatch(t, m)
    \/ \E t \in Tasks, m \in Modes, v \in ParamValues : DispatchValues(t, m, v)
    \/ \E t \in Tasks : SettleOk(t)
    \/ \E t \in Tasks : SettleFail(t)
    \/ \E t \in Tasks, k \in Kinds : Call(t, k, TRUE)
    \/ \E t \in Tasks : Resume(t)
    \/ \E t \in Tasks : Return(t, Undefined)
    \/ \E t \in Tasks : Rethrow(t)
    \/ \E t \in Tasks : Catch(t)
    \/ \E t \in Tasks : Commit(t)
    \/ \E t \in Tasks : Rollback(t)

SpecOverlay == InitOverlay /\ [][NextOverlay]_vars

\* One call chain and the DB helpers: a query handed to a helper with or
\* without the logging option is dispatched in the context of the caller and
\* awaited in the context of the helper; dispatches awaited where they are
\* made, withSkippedSqlLogging calls, the global logging flag switched by
\* configureDb.
InitHelpers == InitWith({1}, ScopeTasks) /\ ~tddMode

NextHelpers ==
    \/ \E b \in BOOLEAN : configureDb(Logging(b, "undefined"), "undefined")
    \/ \E t \in Tasks, m \in Modes : Dispatch(t, m)
    \/ \E t \in Tasks, h \in Helpers, m \in Modes, l \in LoggingOption :
          Helper(t, h, m, l)
    \/ \E t \in Tasks : SettleOk(t)
    \/ \E t \in Tasks : Call(t, "skip", TRUE)
    \/ \E t \in Tasks : Resume(t)
    \/ \E t \in Tasks : Return(t, Undefined)

SpecHelpers == InitHelpers /\ [][NextHelpers]_vars

\* The facets and the forwarded properties of the dispatcher: one call chain
\* that dispatches and reads properties through chains of facet accesses,
\* outside and inside awaited @Transactional calls, outside forced-rollback
\* mode, with the global logging flag switched by configureDb and the
\* connection reset.
InitFacets == InitWith({1}, ScopeTasks) /\ ~tddMode

NextFacets ==
    \/ \E b \in BOOLEAN : configureDb(Logging(b, "undefined"), "undefined")
    \/ resetConnection
    \/ \E t \in Tasks, chain \in Chains : DispatchVia(t, chain)
    \/ \E t \in Tasks, chain \in Chains, prop \in Forwarded :
          ReadProperty(t, chain, prop)
    \/ \E t \in Tasks : SettleOk(t)
    \/ \E t \in Tasks : Call(t, "txn", TRUE)
    \/ \E t \in Tasks : Resume(t)
    \/ \E t \in Tasks : Return(t, Undefined)
    \/ \E t \in Tasks : Commit(t)

SpecFacets == InitFacets /\ [][NextFacets]_vars

\* The sinks of the log entries: one call chain under each runtime mode
\* (production, development, test, and the production stage run under a test
\* runner), logging enabled through configureDb with and without a logger
\* of the application, queries that succeed and fail.
RuntimeEnvs == {Env("postgres", FALSE, prod, test) :
                  prod \in BOOLEAN, test \in BOOLEAN}

InitSinks ==
    \E e \in RuntimeEnvs : InitEnv({1}, ProviderTasks, e) /\ ~tddMode

NextSinks ==
    \/ \E logger \in {"undefined", "custom"} :
          configureDb(Logging(TRUE, logger), "undefined")
    \/ \E t \in Tasks, mode \in {"default", "verbose"} : Dispatch(t, mode)
    \/ \E t \in Tasks : SettleOk(t)
    \/ \E t \in Tasks : SettleFail(t)
    \/ \E t \in Tasks : Catch(t)

SpecSinks == InitSinks /\ [][NextSinks]_vars

\* Cursor pagination: one call chain that pages, in both directions and from
\* every cursor, through a table whose rows have distinct cursor-column
\* values.
InitCursor ==
    \E values \in SUBSET (1..MaxSeq) :
       InitTable({1}, 1, DefaultEnv, {Seed(k) : k \in values}) /\ ~tddMode

NextCursor ==
    \E t \in Tasks, c \in Cursors, l \in Limits, d \in BOOLEAN :
       CursorPaginate(t, c, l, d)

SpecCursor == InitCursor /\ [][NextCursor]_vars

\* Traversals with the cursor pagination: one call chain that reads a table
\* page by page, in either direction and with every limit, from the first
\* page to the page that names no next cursor.  The cursor column of the
\* table holds values of 1..MaxSeq, each in no row, in one row or in two.
InitWalk ==
    \E values \in SUBSET (1..MaxSeq) : \E twins \in SUBSET values :
       /\ InitTable({1}, 1, DefaultEnv,
                    {Seed(k) : k \in values} \cup {Twin(k) : k \in twins})
       /\ ~tddMode

NextWalk ==
    \E t \in Tasks, l \in Limits, d \in BOOLEAN : Traverse(t, l, d)

SpecWalk == InitWalk /\ [][NextWalk]_vars

\* Offset pagination: one call chain that asks for pages of a table of up
\* to MaxRows rows with the sequence numbers 1, 2, ..., with every page
\* number and page size, given as numbers or as strings or left out, with
\* logging enabled or disabled by configureDb.
InitPaging ==
    \E n \in 0..MaxRows :
       InitTable({1}, 1, DefaultEnv, {Seed(k) : k \in 1..n}) /\ ~tddMode

NextPaging ==
    \/ \E b \in BOOLEAN : configureDb(Logging(b, "undefined"), "undefined")
    \/ \E t \in Tasks, page \in PageOptions, row \in RowOptions :
          Paginate(t, page, row)

SpecPaging == InitPaging /\ [][NextPaging]_vars

\* Query expressions awaited away from where they were dispatched: one call
\* chain whose activations dispatch a query and keep the expression, and
\* await the expressions kept by themselves or by one another, outside and
\* inside @Transactional calls, awaited at once or later, that commit or
\* roll back.
InitBinding == InitWith({1}, ScopeTasks)

NextBinding ==
    \/ \E t \in Tasks : Create(t, "default")
    \/ \E t, o \in Tasks : Await(t, o)
    \/ \E t \in Tasks : SettleOk(t)
    \/ \E t \in Tasks : SettleFail(t)
    \/ \E t \in Tasks, a \in BOOLEAN : Call(t, "txn", a)
    \/ \E t, c \in Tasks : Join(t, c)
    \/ \E t \in Tasks : Resume(t)
    \/ \E t \in Tasks : Return(t, Undefined)
    \/ \E t \in Tasks : Rethrow(t)
    \/ \E t \in Tasks : Catch(t)
    \/ \E t \in Tasks : Commit(t)
    \/ \E t \in Tasks : Rollback(t)

SpecBinding == InitBinding /\ [][NextBinding]_vars

\* Logging switched between the dispatch and the await of a query: one call
\* chain of an application that enabled logging at start-up or left it
\* disabled, whose activations dispatch default-mode queries, keep the
\* expressions and await them later, outside and inside
\* withSkippedSqlLogging, while configureDb switches the global flag.
InitSampling ==
    \E enabled \in BOOLEAN :
       InitState({1}, ScopeTasks, DefaultEnv, {}, enabled) /\ ~tddMode

NextSampling ==
    \/ \E b \in BOOLEAN : configureDb(Logging(b, "undefined"), "undefined")
    \/ \E t \in Tasks : Create(t, "default")
    \/ \E t, o \in Tasks : Await(t, o)
    \/ \E t \in Tasks : SettleOk(t)
    \/ \E t \in Tasks : Call(t, "skip", TRUE)
    \/ \E t \in Tasks : Resume(t)
    \/ \E t \in Tasks : Return(t, Undefined)

SpecSampling == InitSampling /\ [][NextSampling]_vars

\* Failing queries and the suppression flag: one call chain of an
\* application that enabled logging at start-up or left it disabled, whose
\* activations dispatch queries in default and in verbose mode and observe
\* them later through await, then or catch, outside and inside
\* withSkippedSqlLogging; every query may fail.
InitFailures ==
    \E enabled \in BOOLEAN :
       InitState({1}, ScopeTasks, DefaultEnv, {}, enabled) /\ ~tddMode

NextFailures ==
    \/ \E t \in Tasks, mode \in {"default", "verbose"} : Create(t, mode)
    \/ \E t, o \in Tasks : Await(t, o)
    \/ \E t, o \in Tasks, how \in {"then", "catch"} : Observe(t, o, how)
    \/ \E t \in Tasks : SettleOk(t)
    \/ \E t \in Tasks : SettleFail(t)
    \/ \E t \in Tasks : Call(t, "skip", TRUE)
    \/ \E t \in Tasks : Resume(t)
    \/ \E t \in Tasks : Return(t, Undefined)
    \/ \E t \in Tasks : Rethrow(t)
    \/ \E t \in Tasks : Catch(t)

SpecFailures == InitFailures /\ [][NextFailures]_vars

\* The dispatcher and the connection provider: one call chain that
\* dispatches, reads forwarded properties and reads facets, outside and
\* inside awaited @Transactional calls, while the connection is reset.
InitAccess == InitWith({1}, ScopeTasks) /\ ~tddMode

NextAccess ==
    \/ resetConnection
    \/ \E t \in Tasks, chain \in Chains : DispatchVia(t, chain)
    \/ \E t \in Tasks, chain \in Chains, prop \in Forwarded :
          ReadProperty(t, chain, prop)
    \/ \E t \in Tasks, chain \in Chains : ReadFacet(t, chain)
    \/ \E t \in Tasks : SettleOk(t)
    \/ \E t \in Tasks : Call(t, "txn", TRUE)
    \/ \E t \in Tasks : Resume(t)
    \/ \E t \in Tasks : Return(t, Undefined)
    \/ \E t \in Tasks : Commit(t)

SpecAccess == InitAccess /\ [][NextAccess]_vars

\* Calls of the dispatcher that are no template-literal calls: one call
\* chain of an application that enabled logging at start-up or left it
\* disabled, which calls sql, sql.verbose and sql.silent with an identifier,
\* an array, an object or a template, outside and inside awaited
\* @Transactional calls, and awaits the queries the template calls made.
InitInvoke ==
    \E enabled \in BOOLEAN :
       InitState({1}, ScopeTasks, DefaultEnv, {}, enabled) /\ ~tddMode

NextInvoke ==
    \/ \E t \in Tasks, chain \in Chains,
          firstArg \in NonTemplates \cup {TemplateStrings} :
          Invoke(t, chain, firstArg)
    \/ \E t, o \in Tasks : Await(t, o)
    \/ \E t \in Tasks : SettleOk(t)
    \/ \E t \in Tasks : Call(t, "txn", TRUE)
    \/ \E t \in Tasks : Resume(t)
    \/ \E t \in Tasks : Return(t, Undefined)
    \/ \E t \in Tasks : Commit(t)

SpecInvoke == InitInvoke /\ [][NextInvoke]_vars

\* The configuration API alone: every configureDb call and every change of
\* process.env, with no call chain running.
InitConfig == InitEnv({}, 0, DefaultEnv) /\ ~tddMode

NextConfig ==
    \/ \E l \in LoggingOptions, d \in DateStringsOptions : configureDb(l, d)
    \/ \E e \in Envs : SetEnv(e)

SpecConfig == InitConfig /\ [][NextConfig]_vars

\* The connection provider: one call chain in development mode that calls
\* getBaseSql and getDbType, dispatches, enters @Transactional methods and
\* catches what they throw, while the connection settings in process.env
\* change and the connection is reset.
ConnectionEnvs == {Env(u, FALSE, FALSE, FALSE) : u \in Urls}
                      \cup {Env("unset", TRUE, FALSE, FALSE)}

InitProvider ==
    \E e \in ConnectionEnvs : InitEnv({1}, ProviderTasks, e) /\ ~tddMode

NextProvider ==
    \/ configureDb(NoLogging, "true")
    \/ \E e \in ConnectionEnvs : SetEnv(e)
    \/ resetConnection
    \/ \E t \in Tasks :
          \/ GetBaseSql(t)
          \/ GetDbType(t)
          \/ Dispatch(t, "default")
          \/ SettleOk(t)
          \/ SettleFail(t)
          \/ Call(t, "txn", TRUE)
          \/ Resume(t)
          \/ Return(t, Undefined)
          \/ Catch(t)
          \/ Commit(t)

SpecProvider == InitProvider /\ [][NextProvider]_vars

\* ------------------------------------------------------ vocabulary of the claims
Started(t) == task[t].st \notin {"free", "off"}

\* is activation t the activation s or one started below it
RECURSIVE InSubtree(_, _)
InSubtree(t, s) ==
    \/ t = s
    \/ task[t].parent # 0 /\ InSubtree(task[t].parent, s)

\* the top-level activation of the chain of t
RECURSIVE RootOf(_)
RootOf(t) == IF task[t].parent = 0 THEN t ELSE RootOf(task[t].parent)

\* the nearest activation at or above t whose wrapper called begin (0: none)
RECURSIVE ScopeOf(_)
ScopeOf(t) ==
    IF txState[t] # "none" THEN t
    ELSE IF task[t].parent = 0 THEN 0
    ELSE ScopeOf(task[t].parent)

\* the activations at or above t whose wrapper called begin
Openers(t) == {a \in Tasks : InSubtree(t, a) /\ txState[a] # "none"}

\* is t inside a withSkippedSqlLogging call
Suppressed(t) == \E a \in Tasks : InSubtree(t, a) /\ task[a].kind = "skip"

\* every row successfully written, committed or not
AllRows == db \cup UNION {Rows(txLog[h]) : h \in Tasks}

\* the rollback signal the wrapper itself raises
Signals == {TddRollback(v) : v \in Returnable}

\* an activation whose wrapper opened a transaction and has settled
Closed(s) == txState[s] # "none" /\ task[s].st = "done"

\* ------------------------------------------------------------------- C2
\* C2: a @Transactional call made inside a transaction scope runs on the
\* ambient transaction: no activation has two begins at or above it, the
\* nested call opens nothing and keeps the handle of the enclosing scope, and
\* once the one transaction has committed it is the only commit below the
\* scope and every row written by the scope or below it is in the database.
C2_NestedReuse ==
    /\ \A t \in Tasks : Started(t) => Cardinality(Openers(t)) <= 1
    /\ \A t \in Tasks :
         (Started(t) /\ task[t].kind = "txn" /\ ScopeOf(task[t].parent) # 0)
         => /\ txState[t] = "none"
            /\ task[t].store.tx = TxHandle(ScopeOf(task[t].parent))
    /\ \A s \in Tasks :
         txState[s] = "committed"
         => /\ {a \in Tasks : InSubtree(a, s) /\ txState[a] = "committed"} = {s}
            /\ \A r \in AllRows : InSubtree(r.t, s) => r \in db

\* a scope committed with a row of its own and a row of a nested scope
C2_Witness ==
    \E s, t \in Tasks :
        /\ t # s /\ task[t].kind = "txn" /\ task[t].parent = s
        /\ txState[s] = "committed"
        /\ \E r1, r2 \in db : r1.t = s /\ r2.t = t

\* ------------------------------------------------------------------- C3
\* C3: when the unit of work of a scope fails with an error that is not the
\* rollback signal, in either mode, the transaction is rolled back, the
\* wrapper rejects with that same error and no row written by the scope or
\* below it is in the database.
C3_RollbackOnError ==
    \A s \in Tasks :
        (Closed(s) /\ task[s].body.kind = "throw" /\ task[s].body.val \notin Signals)
        => /\ txState[s] = "rolledback"
           /\ task[s].outcome = task[s].body
           /\ \A r \in AllRows : InSubtree(r.t, s) => r \notin db

\* in forced-rollback mode, a scope that wrote a row failed on a query error
C3_Witness ==
    \E s \in Tasks :
        /\ Closed(s) /\ task[s].isTddMode
        /\ task[s].body = Thrown(QueryError)
        /\ txLog[s] # <<>>

\* ------------------------------------------------------------------- C4
\* C4: with forced-rollback mode off, when the unit of work of an outermost
\* scope returns v the wrapper resolves with v, the transaction is committed
\* and every row written through it is in the database.
C4_CommitOnSuccess ==
    \A s \in Tasks :
        (Closed(s) /\ ~task[s].isTddMode /\ task[s].body.kind = "ret")
        => /\ task[s].outcome = task[s].body
           /\ txState[s] = "committed"
           /\ Rows(txLog[s]) \subseteq db
           /\ \A r \in AllRows : r.t = s => r \in db

\* a scope that wrote a row returned the row id and has committed
C4_Witness ==
    \E s \in Tasks :
        /\ Closed(s) /\ ~task[s].isTddMode
        /\ task[s].body = Returned(RowId)
        /\ \E r \in db : r.t = s

\* ------------------------------------------------------------------- C5
\* C5: when a nested scope has completed and the outer unit of work then
\* fails, no row of the nested scope and no row of the outer one is in the
\* database, and the nested scope has committed nothing.
C5_NestedRollbackAtomic ==
    \A s, t \in Tasks :
        (/\ Closed(s) /\ task[s].body.kind = "throw"
         /\ t # s /\ InSubtree(t, s) /\ task[t].kind = "txn"
         /\ task[t].st = "done" /\ task[t].outcome.kind = "ret")
        => /\ txState[t] # "committed"
           /\ \A r \in AllRows : r.t \in {s, t} => r \notin db

\* the outer scope and the nested one each wrote a row, the nested one
\* returned and the outer one failed
C5_Witness ==
    \E s, t \in Tasks :
        /\ Closed(s) /\ task[s].body.kind = "throw"
        /\ t # s /\ task[t].parent = s /\ task[t].kind = "txn"
        /\ task[t].st = "done" /\ task[t].outcome.kind = "ret"
        /\ \E r1, r2 \in Rows(txLog[s]) : r1.t = s /\ r2.t = t

\* ------------------------------------------------------------------- C6
\* C6: in forced-rollback mode, when the unit of work of an outermost scope
\* returns v (undefined included) the wrapper resolves with v, the
\* transaction is rolled back and no row written by the scope or below it is
\* in the database.
C6_ForcedRollback ==
    \A s \in Tasks :
        (Closed(s) /\ task[s].isTddMode /\ task[s].body.kind = "ret")
        => /\ task[s].outcome = task[s].body
           /\ txState[s] = "rolledback"
           /\ \A r \in AllRows : InSubtree(r.t, s) => r \notin db

\* in forced-rollback mode a scope that wrote a row returned undefined
C6_Witness ==
    \E s \in Tasks :
        /\ Closed(s) /\ task[s].isTddMode
        /\ task[s].body = Returned(Undefined)
        /\ txLog[s] # <<>>

\* ------------------------------------------------------------------- C7
\* C7: with forced-rollback mode off, a scope whose transaction was rolled
\* back rejects with the error its unit of work threw, whatever that value
\* is; it never resolves.
C7_OnlyForcedRollbackMasks ==
    \A s \in Tasks :
        (Closed(s) /\ ~task[s].isTddMode /\ txState[s] = "rolledback")
        => /\ task[s].outcome.kind = "throw"
           /\ task[s].outcome = task[s].body

\* ------------------------------------------------------------------- C1
\* the handle a dispatch by t has to go to: the transaction of the scope t
\* is in, the pooled handle when t is in none
RoutedAs(t, h) ==
    IF ScopeOf(t) # 0 THEN h = TxHandle(ScopeOf(t))
    ELSE h.kind = "pool" /\ h = baseSql

\* C1: in the three modes, a query dispatched inside a transaction scope is
\* bound to the handle of that scope and one dispatched outside every scope
\* to the pooled handle; a row written through a transaction handle is in
\* the log of that transaction and reaches the database only by its commit,
\* a row written through the pool is in the database at once.
C1_Routing ==
    /\ \A t \in Tasks : task[t].st = "waitQ" => RoutedAs(t, task[t].q.target)
    /\ \A r \in AllRows :
         /\ RoutedAs(r.t, r.via)
         /\ r.via.kind = "tx" =>
              /\ r \in Rows(txLog[r.via.id])
              /\ r \in db => txState[r.via.id] = "committed"
         /\ r.via.kind = "pool" => r \in db

\* a silent query dispatched inside an open scope is pending on the
\* transaction handle while a row another chain wrote outside every scope is
\* in the database
C1_Witness ==
    \E t \in Tasks :
        /\ task[t].st = "waitQ" /\ task[t].q.mode = "silent"
        /\ task[t].q.target.kind = "tx" /\ txState[task[t].q.target.id] = "open"
        /\ \E r \in db : r.via.kind = "pool" /\ RootOf(r.t) # RootOf(t)

\* ------------------------------------------------------------------- C8
\* C8: a @Transactional call made by a chain that is in no scope opens a
\* transaction of its own whatever the other chains are doing; a query is
\* never bound to, and a row never written through, a transaction handle
\* opened by another chain; an activation in no scope dispatches to the pool.
C8_TransactionPrivacy ==
    /\ \A t \in Tasks :
         (Started(t) /\ task[t].kind = "txn" /\ ScopeOf(task[t].parent) = 0)
         => txState[t] # "none"
    /\ \A t \in Tasks :
         task[t].st = "waitQ" =>
            LET h == task[t].q.target
            IN /\ h.kind = "tx" => RootOf(h.id) = RootOf(t)
               /\ ScopeOf(t) = 0 => h.kind = "pool"
    /\ \A r \in AllRows :
         /\ r.via.kind = "tx" => RootOf(r.via.id) = RootOf(r.t)
         /\ ScopeOf(r.t) = 0 => r.via.kind = "pool"

\* two chains have a transaction open at the same time, each with a row
\* written through its own handle
C8_Witness ==
    \E a, b \in Tasks :
        /\ RootOf(a) # RootOf(b)
        /\ txState[a] = "open" /\ txState[b] = "open"
        /\ txLog[a] # <<>> /\ txLog[b] # <<>>

\* ------------------------------------------------------------------- C9
\* the awaited query of t has just succeeded
Succeeds(t) == task[t].st = "waitQ" /\ task'[t].st = "run"

\* C9: whatever the other chains do, the success of a default-mode query is
\* logged exactly when global logging was enabled at its dispatch and its
\* own chain is not inside withSkippedSqlLogging.
C9_SuppressionIsolation ==
    [][\A t \in Tasks :
          (Succeeds(t) /\ task[t].q.mode = "default")
          => LET e == [t |-> t, n |-> task[t].ops, level |-> "info"]
             IN (e \in logs') <=> (task[t].q.enabled /\ ~Suppressed(t))]_vars

\* with global logging enabled, a query of a chain inside
\* withSkippedSqlLogging has succeeded unlogged, a query of another chain has
\* succeeded and is logged, and a further query of the suppressed chain is
\* pending
C9_Witness ==
    \E t, u \in Tasks :
        /\ RootOf(t) # RootOf(u)
        /\ Suppressed(t) /\ ~Suppressed(u)
        /\ sqlLoggingEnabled
        /\ task[t].st = "waitQ" /\ task[t].q.mode = "default"
        /\ \E r \in AllRows :
             r.t = t /\ [t |-> t, n |-> r.n, level |-> "info"] \notin logs
        /\ \E r \in AllRows :
             r.t = u /\ [t |-> u, n |-> r.n, level |-> "info"] \in logs

\* ------------------------------------------------------------------ C10
\* C10: the rows an activation inside a transaction scope writes by queries
\* awaited one after another all go through the handle of that scope, and
\* they are in the log of that transaction in program order.
C10_PropagationAcrossSuspension ==
    /\ \A r \in AllRows :
         ScopeOf(r.t) # 0 =>
            /\ r.via = TxHandle(ScopeOf(r.t))
            /\ r \in Rows(txLog[ScopeOf(r.t)])
    /\ \A h \in Tasks : \A i, j \in 1..Len(txLog[h]) :
         (i < j /\ txLog[h][i].t = txLog[h][j].t) => txLog[h][i].n < txLog[h][j].n

\* an activation has written two rows through the handle of its scope while
\* another chain has written a row of its own
C10_Witness ==
    \E h \in Tasks :
        /\ Len(txLog[h]) >= 2
        /\ txLog[h][1].t = txLog[h][2].t
        /\ \E r \in AllRows : RootOf(r.t) # RootOf(h)

\* ------------------------------------------------------------------ C11
\* activation t has just dispatched a query
Dispatches(t) == task[t].st = "run" /\ task'[t].st = "waitQ"

\* C11: a query is never bound to a transaction handle whose transaction has
\* committed or rolled back, not even by an activation that was started
\* inside the scope, was not awaited by it and is still running when the
\* scope has returned.
C11_HandleNeverOutlives ==
    [][\A t \in Tasks :
          (Dispatches(t) /\ task'[t].q.target.kind = "tx")
          => txState[task'[t].q.target.id] = "open"]_vars

\* ------------------------------------------------------------------ C12
\* has activation t awaited a call of the given kind that has settled
Left(t, kind) ==
    \E c \in Tasks : /\ task[c].parent = t /\ task[c].kind = kind
                     /\ task[c].st = "done" /\ task[t].waitOn # c

\* C12: once a transaction scope called from outside every transaction has
\* ended, committed or rolled back, the queries its caller dispatches go to
\* the pooled handle; once withSkippedSqlLogging(fn) has settled, the success
\* of a default-mode query of its caller is logged exactly when global
\* logging was enabled at the dispatch and the caller itself is not inside
\* withSkippedSqlLogging.
C12_ScopeExitRestores ==
    [][\A t \in Tasks :
          /\ (Dispatches(t) /\ Left(t, "txn") /\ ScopeOf(t) = 0)
             => /\ task'[t].q.target.kind = "pool"
                /\ task'[t].q.target = baseSql'
          /\ (Succeeds(t) /\ Left(t, "skip") /\ task[t].q.mode = "default")
             => LET e == [t |-> t, n |-> task[t].ops, level |-> "info"]
                IN (e \in logs') <=> (task[t].q.enabled /\ ~Suppressed(t))]_vars

\* the caller of a scope that was rolled back by an error, which it caught,
\* and of a withSkippedSqlLogging call that has settled has a default-mode
\* query pending on the pool with logging attached
C12_Witness ==
    \E t, c \in Tasks :
        /\ task[c].parent = t /\ Closed(c) /\ txState[c] = "rolledback"
        /\ task[c].outcome.kind = "throw"
        /\ Left(t, "txn") /\ Left(t, "skip")
        /\ task[t].st = "waitQ" /\ task[t].q.mode = "default"
        /\ task[t].q.target.kind = "pool" /\ task[t].q.wrapped

\* ------------------------------------------------------------------ C13
\* the log entry of the success of the query t is awaiting
InfoEntry(t) == [t |-> t, n |-> task[t].ops, level |-> "info"]

\* what the target resolves the query t is awaiting with
TargetRows(t) ==
    QueryResult({[t |-> t, n |-> task[t].ops, via |-> task[t].q.target]})

\* C13: the success of a query dispatched through sql.verbose emits one log
\* entry and hands the rows of the target to the awaiting code, whatever the
\* global logging flag is and whether or not the dispatch or the await is
\* inside withSkippedSqlLogging.
C13_VerbosePrecedence ==
    [][\A t \in Tasks :
          (Succeeds(t) /\ task[t].q.mode = "verbose")
          => /\ InfoEntry(t) \notin logs
             /\ logs' = logs \cup {InfoEntry(t)}
             /\ task'[t].got = TargetRows(t)]_vars

\* global logging was never enabled, and a query dispatched outside
\* withSkippedSqlLogging and awaited by a helper called with {logging: false}
\* is logged and has handed its rows on
C13_Witness ==
    /\ nConfigure = 0
    /\ \E c \in Tasks :
          /\ task[c].helper # "-" /\ task[c].kind = "skip"
          /\ ~Suppressed(task[c].parent)
          /\ [t |-> c, n |-> 0, level |-> "info"] \in logs
          /\ task[c].got.kind = "rows"

\* ------------------------------------------------------------------ C14
\* C14: what a dispatch through sql.silent returns is the pending result of
\* the target itself, without the logging proxy, and the success of the query
\* emits no log entry, whatever the global logging flag and the suppression
\* flag are.
C14_SilentPrecedence ==
    [][\A t \in Tasks :
          /\ (Dispatches(t) /\ task'[t].q.mode = "silent")
             => ~task'[t].q.wrapped
          /\ (Succeeds(t) /\ task[t].q.mode = "silent")
             => /\ ~task[t].q.wrapped
                /\ logs' = logs
                /\ task'[t].got = TargetRows(t)]_vars

\* with global logging enabled, an activation outside withSkippedSqlLogging
\* whose earlier query is logged has a silent query pending
C14_Witness ==
    \E t \in Tasks :
        /\ task[t].st = "waitQ" /\ task[t].q.mode = "silent"
        /\ task[t].q.enabled /\ ~Suppressed(t)
        /\ \E r \in db : r.t = t /\ [t |-> t, n |-> r.n, level |-> "info"] \in logs

\* ------------------------------------------------------------------ C15
\* C15: the success of a query dispatched through the default dispatcher
\* emits exactly one log entry, its own, when global logging was enabled at
\* the dispatch and neither the dispatch nor the await is inside
\* withSkippedSqlLogging, and emits none otherwise; the awaiting code gets the
\* rows of the target either way.
C15_DefaultModeLogging ==
    [][\A t \in Tasks :
          (Succeeds(t) /\ task[t].q.mode = "default")
          => /\ InfoEntry(t) \notin logs
             /\ logs' = IF task[t].q.enabled /\ ~Suppressed(t)
                          THEN logs \cup {InfoEntry(t)} ELSE logs
             /\ task'[t].got = TargetRows(t)]_vars

\* an activation outside withSkippedSqlLogging, an earlier query of which
\* succeeded unlogged, has a default-mode query pending that was dispatched
\* with global logging enabled and carries the logging proxy
C15_Witness ==
    \E t \in Tasks :
        /\ task[t].st = "waitQ" /\ task[t].q.mode = "default"
        /\ task[t].helper = "-" /\ ~Suppressed(t)
        /\ task[t].q.enabled /\ task[t].q.wrapped
        /\ \E r \in db :
              r.t = t /\ [t |-> t, n |-> r.n, level |-> "info"] \notin logs

\* ------------------------------------------------------------------ C16
\* the awaited query of t has just failed
Fails(t) == task[t].st = "waitQ" /\ task'[t].st = "exc"

\* the log entry of the failure of the query t is awaiting
ErrorEntry(t) == [t |-> t, n |-> task[t].ops, level |-> "error"]

\* C16: when a dispatched query fails, an entry is emitted on the error
\* channel and the error of the target is thrown into the awaiting code, in
\* the three modes and whatever the global logging flag and the suppression
\* flag are.
C16_ErrorsAlwaysLogged ==
    [][\A t \in Tasks :
          Fails(t) => /\ ErrorEntry(t) \in logs'
                      /\ task'[t].err = QueryError]_vars

\* ------------------------------------------------------------------ C17
\* the pending result q as the target returned it, without the logging proxy
Unwrapped(q) == [q EXCEPT !.wrapped = FALSE]

\* C17: awaiting a pending result that carries the logging proxy evaluates
\* to the value, or throws the error, that awaiting the target's own pending
\* result does, and writes what that would write; the proxy adds log entries
\* and nothing else.
C17_OverlaySideChannel ==
    [][\A t \in Tasks :
          /\ (Succeeds(t) /\ task[t].q.wrapped)
             => /\ task'[t].got = Awaited(Unwrapped(task[t].q), TargetRows(t))
                /\ task'[t].got = TargetRows(t)
                /\ TargetRows(t).rows \subseteq AllRows'
          /\ (Fails(t) /\ task[t].q.wrapped)
             => /\ task'[t].err = AwaitedError(Unwrapped(task[t].q), QueryError)
                /\ task'[t].err = QueryError
                /\ AllRows' = AllRows]_vars

\* an activation got the rows of a logged query, and its next query, with
\* the logging proxy too, failed: the failure is logged and the error of the
\* target was thrown into it
C17_Witness ==
    \E t \in Tasks :
        /\ task[t].st = "exc" /\ task[t].err = QueryError
        /\ [t |-> t, n |-> task[t].ops, level |-> "error"] \in logs
        /\ task[t].got.kind = "rows"
        /\ \E r \in task[t].got.rows :
              r \in AllRows /\ [t |-> t, n |-> r.n, level |-> "info"] \in logs

\* ------------------------------------------------------------------ C18
\* the dispatch activation t has just made threw instead of returning a
\* pending result
DispatchThrows(t) == task[t].st = "run" /\ task'[t].st = "exc"

\* C18: whatever the bound value is, a dispatch with logging attached returns
\* a pending result as the same dispatch with logging off does; it never
\* throws on account of the log text, and the text has a piece for the value,
\* the placeholder when nothing better can be made of it.
C18_LogTextNeverAffects ==
    [][\A t \in Tasks :
          /\ ~DispatchThrows(t)
          /\ (Dispatches(t) /\ task'[t].q.wrapped)
             => /\ task'[t].q.target = Target(t)
                /\ Len(task'[t].q.text) <= 1]_vars

\* ------------------------------------------------------------------ C19
\* C19: for an activation that is both inside a transaction scope and inside
\* withSkippedSqlLogging, whichever was entered first, every dispatch is bound
\* to the open handle of that scope and the success of a default-mode query
\* emits no log entry, even with global logging enabled.
C19_DerivedContextsPreserve ==
    [][\A t \in Tasks :
          (ScopeOf(t) # 0 /\ Suppressed(t))
          => /\ Dispatches(t)
                => /\ task'[t].q.target = TxHandle(ScopeOf(t))
                   /\ txState[ScopeOf(t)] = "open"
                   /\ task'[t].q.mode = "default" => ~task'[t].q.wrapped
             /\ (Succeeds(t) /\ task[t].q.mode = "default")
                => /\ logs' = logs
                   /\ TargetRows(t).rows \subseteq Rows(txLog'[ScopeOf(t)])]_vars

\* with global logging enabled, a transaction scope entered inside
\* withSkippedSqlLogging has written an unlogged row through its own handle
\* and has a default-mode query pending on it
C19_Witness ==
    \E t \in Tasks :
        /\ task[t].kind = "txn" /\ txState[t] = "open"
        /\ task[task[t].parent].kind = "skip"
        /\ sqlLoggingEnabled /\ task[t].q.enabled
        /\ task[t].st = "waitQ" /\ task[t].q.mode = "default"
        /\ task[t].q.target = TxHandle(t)
        /\ \E r \in Rows(txLog[t]) :
              r.t = t /\ [t |-> t, n |-> r.n, level |-> "info"] \notin logs

\* ------------------------------------------------------------------ C20
\* C20: the success of a default-mode query handed to DB.many, DB.maybeOne,
\* DB.insert, DB.update or DB.delete emits no log entry when the helper was
\* called with {logging: false}, even if the query was dispatched with global
\* logging enabled and outside withSkippedSqlLogging; when the helper was
\* called without the option the success is logged as that of a query
\* awaited by the caller would be.
C20_HelperLoggingOption ==
    [][\A t \in Tasks :
          (Succeeds(t) /\ task[t].helper # "-" /\ task[t].q.mode = "default")
          => /\ task[t].helper \in Helpers
             /\ task[t].logging = "false" => logs' = logs
             /\ task[t].logging # "false"
                => logs' = IF task[t].q.enabled /\ ~Suppressed(task[t].parent)
                             THEN logs \cup {InfoEntry(t)} ELSE logs]_vars

\* with global logging enabled, the caller, outside withSkippedSqlLogging,
\* has had a query logged that it handed to a helper without the option, and
\* the same caller's default-mode query, carrying the logging proxy, is
\* awaited by DB.insert called with {logging: false}
C20_Witness ==
    \E c, d \in Tasks :
        /\ c # d /\ task[c].parent = task[d].parent
        /\ task[d].helper # "-" /\ task[d].logging = "undefined"
        /\ ~Suppressed(task[d].parent)
        /\ [t |-> d, n |-> 0, level |-> "info"] \in logs
        /\ task[c].helper = "insert" /\ task[c].logging = "false"
        /\ task[c].st = "waitQ" /\ task[c].q.mode = "default"
        /\ task[c].q.enabled /\ task[c].q.wrapped

\* ---------------------------------------------------------------------------
\* C21: configureDb is a partial update: a setting that a call does not give
\* (the logging enabled flag, the logger, the dateStrings flag) keeps the
\* value it had before the call.
C21_PartialUpdate ==
    [][\A l \in LoggingOptions, d \in DateStringsOptions :
         configureDb(l, d) =>
            /\ ~l.given => sqlLoggingEnabled' = sqlLoggingEnabled
            /\ l.logger = "undefined" => currentLogger' = currentLogger
            /\ d = "undefined" => dateStringsEnabled' = dateStringsEnabled]_vars

\* ---------------------------------------------------------------------------
\* the three settings configureDb manages
Settings == <<sqlLoggingEnabled, currentLogger, dateStringsEnabled>>

\* C22: configureDb({}) is a no-op: from every reachable configuration,
\* a call with every field omitted leaves the logging enabled flag, the
\* logger and the dateStrings flag as they were, however often it is made.
C22_EmptyConfigureIsNoOp ==
    [][configureDb(NoLogging, "undefined") => Settings' = Settings]_vars

\* a configuration that differs from the initial one in all three settings,
\* reached with a call to spare
C22_Witness ==
    /\ sqlLoggingEnabled
    /\ currentLogger = "custom"
    /\ dateStringsEnabled
    /\ nConfigure < MaxReconfigure

\* ---------------------------------------------------------------------------
\* the pooled handles constructed and not closed
OpenHandles == {c.h : c \in created} \ closed

\* the step makes activation t perform one more operation
Operates(t) == task'[t].ops = task[t].ops + 1

\* C23: there is a single pooled handle: at most one pooled handle that was
\* not closed exists, isDbConnected() is true exactly when it exists, none
\* exists after import, a handle is constructed only by a step that uses the
\* pool (never by configureDb or a change of the environment), and until
\* the next reset every getBaseSql call and every pool-routed dispatch gets
\* the same instance.
C23_SinglePooledHandle ==
    /\ created = {} /\ ~isDbConnected
    /\ [](/\ Cardinality(OpenHandles) <= 1
          /\ isDbConnected <=> OpenHandles # {}
          /\ isDbConnected => baseSql \in OpenHandles)
    /\ [][/\ created' # created
             => /\ nConfigure' = nConfigure
                /\ env' = env
                /\ \E t \in Tasks : Operates(t)
          /\ isDbConnected /\ closed' = closed => baseSql' = baseSql
          /\ \A t \in Tasks :
               /\ Operates(t) /\ task'[t].got # task[t].got
                  /\ task'[t].got.kind = "handle"
                  => task'[t].got = Handle(baseSql')
               /\ Dispatches(t) /\ task'[t].q.target.kind = "pool"
                  => task'[t].q.target = baseSql']_vars

\* getBaseSql returned the second handle of the run, after a reset closed
\* the first
C23_Witness ==
    /\ task[1].got = Handle(PoolHandle(2))
    /\ baseSql = PoolHandle(2)
    /\ closed = {PoolHandle(1)}

\* ---------------------------------------------------------------------------
\* detection of the database type from the DATABASE_URL of the moment
Detected == IF env.url = "mysql" THEN "mysql" ELSE "postgres"

\* C24: resetConnection closes the current handle if there is one and only
\* that, and leaves isDbConnected() false and the cached database type
\* cleared; the handle constructed next is a new one, built from the
\* settings of that moment (from DATABASE_URL when it is set, else from the
\* DB_* settings with the database type getDbType answers), and the type
\* cached next is detected from the DATABASE_URL of that moment.
C24_ResetConnection ==
    [][/\ resetConnection
          => /\ closed' = IF isDbConnected THEN closed \cup {baseSql} ELSE closed
             /\ ~isDbConnected'
             /\ detectedDbType' = "null"
       /\ created' # created
          => \E c \in created' \ created :
               /\ created' = created \cup {c}
               /\ c.h \notin {d.h : d \in created} \cup closed
               /\ c.h = baseSql'
               /\ c.settings.from =
                    IF env.url # "unset" THEN "DATABASE_URL" ELSE "DB_HOST"
               /\ c.settings.db =
                    IF env.url = "unset" /\ detectedDbType # "null"
                    THEN detectedDbType ELSE Detected
       /\ detectedDbType = "null" /\ detectedDbType' # "null"
          => detectedDbType' = Detected
       /\ \A t \in Tasks :
            Operates(t) /\ task'[t].got # task[t].got
            /\ task'[t].got.kind = "dbType" /\ detectedDbType = "null"
            => task'[t].got = DbType(Detected)]_vars

\* after a reset that closed the postgres handle, the next handle was built
\* from a mysql DATABASE_URL and getDbType answered mysql
C24_Witness ==
    /\ closed = {PoolHandle(1)}
    /\ [h |-> PoolHandle(1),
        settings |-> [from |-> "DATABASE_URL", db |-> "postgres"]] \in created
    /\ [h |-> PoolHandle(2),
        settings |-> [from |-> "DATABASE_URL", db |-> "mysql"]] \in created
    /\ baseSql = PoolHandle(2)
    /\ task[1].got = DbType("mysql")

\* ---------------------------------------------------------------------------
\* process.env holds DATABASE_URL, or all of DB_HOST, DB_USER, DB_PASSWORD
\* and DB_NAME
Supplied == env.url # "unset" \/ env.parts

\* the step is a use of the pool by activation t: a getBaseSql call, a
\* dispatch outside every transaction, or the entry of an outermost scope
UsesPool(t) ==
    \/ GetBaseSql(t)
    \/ getTx(t) = NoHandle /\ Dispatch(t, "default")
    \/ ~Reuses(t) /\ Call(t, "txn", TRUE)

\* the step throws the configuration error into t, or settles the scope t
\* entered with it
ThrowsConfigError(t) ==
    \/ task'[t].st = "exc" /\ task'[t].err = ConfigError
    \/ /\ task'[t].st = "waitT"
       /\ task'[task'[t].waitOn].st = "done"
       /\ task'[task'[t].waitOn].outcome = Thrown(ConfigError)
       /\ txState' = txState

\* C25: while no handle exists and the connection settings are missing,
\* every use of the pool throws the configuration error, constructs no
\* handle and leaves isDbConnected() false; once the settings are supplied
\* the next use succeeds, with no reset in between.
C25_MissingSettings ==
    [][\A t \in Tasks :
         UsesPool(t) /\ ~isDbConnected
         => IF Supplied
              THEN /\ ~ThrowsConfigError(t)
                   /\ isDbConnected'
                   /\ closed' = closed
              ELSE /\ ThrowsConfigError(t)
                   /\ created' = created
                   /\ ~isDbConnected']_vars

\* a scope entry failed for the missing settings, and later, no reset having
\* closed anything, getBaseSql returned the first handle of the run
C25_Witness ==
    /\ task[2].outcome = Thrown(ConfigError)
    /\ closed = {}
    /\ task[1].got = Handle(PoolHandle(1))
    /\ isDbConnected

\* ---------------------------------------------------------------------------
\* the terminal states of the scope activation s opened
Committed(s) ==
    /\ txState[s] = "committed"
    /\ task[s].outcome.kind = "ret"

RolledBackByError(s) ==
    /\ txState[s] = "rolledback"
    /\ task[s].outcome.kind = "throw"

RolledBackForced(s) ==
    /\ txState[s] = "rolledback"
    /\ task[s].outcome.kind = "ret"
    /\ task[s].outcome = Returned(ResultOf(task[s].cb.val))

Terminal(s) ==
    /\ task[s].st = "done"
    /\ Committed(s) \/ RolledBackByError(s) \/ RolledBackForced(s)

\* C26: a scope that opened a transaction reaches, once its unit of work has
\* settled, one of the terminal states Committed, RolledBack by an error and
\* RolledBack by forced rollback with the result recovered; it settles in no
\* other way and leaves the terminal state never again; begin is called once
\* per invocation and after a failure the unit of work is not run again.
C26_ScopeStateMachine ==
    /\ \A s \in Tasks :
         (txState[s] = "open" /\ task[s].st = "closing") ~> Terminal(s)
    /\ [](\A s \in Tasks :
            txState[s] # "none" /\ task[s].st = "done" => Terminal(s))
    /\ [][\A s \in Tasks :
            /\ txState'[s] # txState[s]
               => \/ txState[s] = "none" /\ txState'[s] = "open"
                     /\ task[s].st = "free"
                  \/ txState[s] = "open" /\ task[s].st = "closing"
                     /\ txState'[s] \in {"committed", "rolledback"}
            /\ txState[s] # "none" /\ task[s].st \in {"closing", "done"}
               => /\ task'[s].st \in {"closing", "done"}
                  /\ task'[s].body = task[s].body
            /\ Terminal(s)
               => /\ task'[s].st = "done"
                  /\ task'[s].outcome = task[s].outcome
                  /\ txState'[s] = txState[s]]_vars

\* the three terminal states, each reached by one scope of the run
C26_Witness ==
    \E a, b \in Tasks :
       /\ a # b
       /\ task[a].st = "done" /\ task[b].st = "done"
       /\ \/ Committed(a) /\ RolledBackByError(b)
          \/ RolledBackForced(a) /\ RolledBackByError(b)

\* ---------------------------------------------------------------------------
\* the handle an access by t resolves to once the step is taken: the
\* transaction of the scope t is in, the pooled handle when t is in none
ResolvedNext(t) ==
    IF ScopeOf(t) # 0 THEN TxHandle(ScopeOf(t)) ELSE baseSql'

\* C27: reading a property other than verbose and silent through the
\* dispatcher, or through a dispatcher reached by facet accesses, yields that
\* property of the target resolved by the access: the handle of the open
\* transaction when the reader is inside a scope, the pooled handle (the one
\* current after the last reset, constructed if need be) otherwise.
C27_PropertyForwarding ==
    [][\A t \in Tasks, chain \in Chains, prop \in Forwarded :
         ReadProperty(t, chain, prop) /\ task'[t].st # "exc"
         => /\ task'[t].got = Property(PropertyOf(ResolvedNext(t), prop))
            /\ ScopeOf(t) # 0 => txState[ScopeOf(t)] = "open"
            /\ ScopeOf(t) = 0 => baseSql'.kind = "pool" /\ baseSql' \notin closed']_vars

\* inside an open scope the last read gave the property of the transaction
\* handle, and the last read of the caller, outside, gave that of the pool
C27_Witness ==
    \E t \in Tasks :
       /\ ScopeOf(t) # 0
       /\ txState[ScopeOf(t)] = "open"
       /\ task[t].got = Property(PropertyOf(TxHandle(ScopeOf(t)), "unsafe"))
       /\ task[ScopeOf(t)].parent # 0
       /\ task[task[ScopeOf(t)].parent].got
            = Property(PropertyOf(PoolHandle(1), "unsafe"))

\* ---------------------------------------------------------------------------
\* the facet named last in a chain, "default" for the bare dispatcher
LastFacet(chain) == IF chain = <<>> THEN "default" ELSE chain[Len(chain)]

\* C28: a dispatch through any chain of facet accesses is routed as one
\* through the bare dispatcher (transaction of the scope, else the pooled
\* handle) and behaves in the mode of the facet named last: it carries the
\* logging proxy as that mode does, and its success is logged if that facet
\* is verbose and not logged if it is silent.
C28_FacetChaining ==
    [][\A t \in Tasks :
         /\ \A chain \in Chains :
              DispatchVia(t, chain) /\ task'[t].st = "waitQ"
              => /\ task'[t].q.target = ResolvedNext(t)
                 /\ task'[t].q.mode = LastFacet(chain)
                 /\ task'[t].q.wrapped
                      = \/ LastFacet(chain) = "verbose"
                        \/ LastFacet(chain) = "default" /\ sqlLoggingEnabled
                 /\ [task'[t].q EXCEPT !.via = <<>>]
                      = [Query(t, LastFacet(chain), <<>>).q EXCEPT !.via = <<>>]
         /\ Succeeds(t) /\ task[t].q.via # <<>>
            => logs' = IF LastFacet(task[t].q.via) = "verbose"
                         THEN logs \cup {InfoEntry(t)} ELSE logs]_vars

\* with global logging disabled, the previous query of an activation was
\* logged (so it went through a chain ending in verbose) and its next one,
\* sent through sql.verbose.silent inside a scope, is pending on the
\* transaction handle without the logging proxy
C28_Witness ==
    \E t \in Tasks :
       /\ ~sqlLoggingEnabled
       /\ task[t].st = "waitQ"
       /\ task[t].q.via = <<"verbose", "silent">>
       /\ ~task[t].q.wrapped
       /\ task[t].q.target.kind = "tx"
       /\ [t |-> t, n |-> task[t].ops - 1, level |-> "info"] \in logs

\* ---------------------------------------------------------------------------
\* C29: in every runtime mode, once configureDb has installed a logger of
\* the application, a success entry is handed to the info function of that
\* logger and a failure entry to its error function.  (The statement is
\* limited to an installed logger because the default logger writes to the
\* console as well.)
C29_ConfiguredLoggerIsSink ==
    [][\A t \in Tasks :
         currentLogger = "custom"
         => /\ Succeeds(t) /\ InfoEntry(t) \in logs'
               => Delivery(t, task[t].ops,
                           [logger |-> "custom", fn |-> "info"]) \in delivered'
            /\ Fails(t) /\ ErrorEntry(t) \in logs'
               => Delivery(t, task[t].ops,
                           [logger |-> "custom", fn |-> "error"]) \in delivered'
      ]_vars

\* ---------------------------------------------------------------------------
\* the cursor-column values of the table
TableValues == {r.n : r \in db}

\* v lies strictly beyond c in the direction of the paging
Beyond(v, c, isDesc) == IF isDesc THEN v < c ELSE v > c

\* C30: for a table with distinct cursor-column values and a limit of at
\* least 1, the page holds at most limit rows of the table, ordered by the
\* cursor column in the requested direction, all strictly beyond the cursor
\* when one is given; nextCursor is the cursor-column value of the last row
\* of the page when a further matching row lies beyond it, and null
\* otherwise.
C30_CursorPageShape ==
    [][\A t \in Tasks, c \in Cursors, l \in Limits, d \in BOOLEAN :
         CursorPaginate(t, c, l, d) /\ task'[t].st # "exc"
         => \E page \in task'[t].got.rows :
              LET data == page.data
                  n == Len(data)
                  matching == {v \in TableValues :
                                 c.isNull \/ Beyond(v, c.v, d)}
                  further == IF n = 0 THEN matching
                             ELSE {v \in matching : Beyond(v, data[n], d)}
              IN /\ task'[t].got.kind = "page"
                 /\ n <= l
                 /\ \A i \in 1..n : data[i] \in matching
                 /\ \A i, j \in 1..n : i < j => Beyond(data[j], data[i], d)
                 /\ page.nextCursor = IF further # {} /\ n > 0
                                        THEN Cursor(data[n]) ELSE NullCursor
                 /\ n = 0 => matching = {}]_vars

\* a page of two rows below cursor 5 in descending order, with a next
\* cursor because two more rows lie below it
C30_Witness ==
    /\ TableValues = 1..MaxSeq
    /\ task[1].got = Page(<<4, 3>>, Cursor(3))

\* ---------------------------------------------------------------------------
\* does every value of the cursor column belong to one row only
DistinctCursorValues == \A r, o \in db : r.n = o.n => r = o

\* the rows of the table with cursor-column value v
RowsAt(v) == {r \in db : r.n = v}

\* how often v is among the rows a traversal collected
Occurrences(seen, v) == Cardinality({i \in 1..Len(seen) : seen[i] = v})

\* the least number of pages of l rows that hold n rows
PagesFor(n, l) == IF n = 0 THEN 1 ELSE (n + l - 1) \div l

\* C31 as stated, for every table: a traversal that has ended has collected
\* every row of the table exactly once.
C31_TraversalOfAnyTable ==
    \A t \in Tasks :
        task[t].walk.st = "done"
        => \A v \in TableValues :
              Occurrences(task[t].walk.seen, v) = Cardinality(RowsAt(v))

\* C31 (amended): over a table with distinct cursor-column values, a
\* traversal begun with cursor null and continued with each nextCursor ends
\* after as many calls as the table has pages of limit rows (one call for an
\* empty table); until then every call has added a full page and rows remain;
\* the rows collected are rows of the table, in strictly ascending or
\* descending cursor order, and at the end they are all the rows of the
\* table.
C31_Traversal ==
    \A t \in Tasks :
        LET w == task[t].walk
            seen == w.seen
            n == Cardinality(db)
        IN DistinctCursorValues /\ w.st # "none"
           => /\ \A i \in 1..Len(seen) : seen[i] \in TableValues
              /\ \A i, j \in 1..Len(seen) :
                    i < j => Beyond(seen[j], seen[i], w.isDesc)
              /\ w.st = "open"
                    => Len(seen) = w.pages * w.limit /\ Len(seen) < n
              /\ w.st = "done"
                    => /\ Len(seen) = n
                       /\ w.pages = PagesFor(n, w.limit)

\* four rows read two by two in descending order: the row count is a
\* multiple of the limit, and the second call ends the traversal
C31_Witness ==
    /\ TableValues = 1..4
    /\ DistinctCursorValues
    /\ task[1].walk = [st |-> "done", limit |-> 2, isDesc |-> TRUE,
                       cursor |-> NullCursor, seen |-> <<4, 3, 2, 1>>,
                       pages |-> 2]

\* ---------------------------------------------------------------------------
\* the lesser of two numbers
Min(a, b) == IF a < b THEN a ELSE b

\* C32: over a base query that matches the rows 1..totalRow in that order,
\* paginate with page p >= 1 (1 when left out) and row r >= 1 (10 when left
\* out) returns the rows at the offsets (p-1)*r .. p*r-1, as many of them as
\* exist, the one at index i with pagingIndex = totalRow - (p-1)*r - i; with
\* row = 0 it returns all rows; totalRow is the row count in both cases.
C32_PaginateArithmetic ==
    [][\A t \in Tasks, page \in PageOptions, row \in RowOptions :
         /\ page.kind = "undefined" \/ (page.kind = "number" /\ page.v >= 1)
         /\ row.kind \in {"undefined", "number"}
         /\ Paginate(t, page, row)
         => \E result \in task'[t].got.rows :
              LET p == IF page.kind = "undefined" THEN 1 ELSE page.v
                  r == IF row.kind = "undefined" THEN 10 ELSE row.v
                  total == Cardinality(db)
                  data == result.data
              IN /\ task'[t].got.kind = "paged"
                 /\ result.totalRow = total
                 /\ r = 0 => /\ Len(data) = total
                             /\ \A i \in 1..total : data[i].n = i
                 /\ r >= 1
                      => /\ Len(data) = IF total > (p - 1) * r
                                         THEN Min(r, total - (p - 1) * r)
                                         ELSE 0
                         /\ \A i \in 0..Len(data) - 1 :
                               /\ data[i + 1].n = (p - 1) * r + i + 1
                               /\ data[i + 1].indexed
                               /\ data[i + 1].pagingIndex
                                    = total - (p - 1) * r - i]_vars

\* the last page of a table of ten rows read four by four: two rows, at the
\* offsets 8 and 9, with the paging indices 2 and 1
C32_Witness ==
    /\ Cardinality(db) = 10
    /\ task[1].got = Paged(<<Item(9, TRUE, 2), Item(10, TRUE, 1)>>, 10)

\* ---------------------------------------------------------------------------
\* the handle a query expression dispatched by activation o is bound to: the
\* transaction handle of the scope o runs in, or the pooled handle
BoundAt(o) ==
    IF ScopeOf(o) # 0 THEN TxHandle(ScopeOf(o)) ELSE PoolHandle(1)

\* C33: a query expression runs against the handle that was current where
\* it was dispatched, whoever awaits it: awaited, its target is the
\* transaction handle of the dispatching activation's scope, or the pool
\* when that activation is outside every scope; a row written through the
\* pool is committed at once, whatever scope the awaiting activation is in,
\* and no commit or rollback removes a committed row.
C33_DispatchTimeBinding ==
    /\ [][\A t, o \in Tasks :
            Await(t, o) => task'[t].q.target = BoundAt(o)]_vars
    /\ [][\A t \in Tasks :
            SettleOk(t) /\ task[t].q.target.kind = "pool"
            => /\ db' = db \cup {[t |-> t, n |-> task[t].ops,
                                  via |-> task[t].q.target]}
               /\ txLog' = txLog]_vars
    /\ [][\A t \in Tasks :
            SettleOk(t) /\ task[t].q.target.kind = "tx"
            => /\ db' = db
               /\ txState[task[t].q.target.id] = "open"
               /\ Len(txLog'[task[t].q.target.id])
                    = Len(txLog[task[t].q.target.id]) + 1]_vars
    /\ [][db \subseteq db']_vars

\* the root dispatched a query outside every scope and the @Transactional
\* method it then called awaited it: the row written by that activation
\* went through the pool and is still there after the scope rolled back
C33_Witness ==
    /\ txState[2] = "rolledback"
    /\ task[2].parent = 1
    /\ \E r \in db : r.t = 2 /\ r.via = PoolHandle(1)

\* ---------------------------------------------------------------------------
\* a @Transactional call made inside a scope: it opened no transaction
Nested(c) ==
    /\ Started(c)
    /\ task[c].kind = "txn"
    /\ txState[c] = "none"
    /\ ScopeOf(c) # 0

\* the rows activation c wrote through the handle of scope s
WrittenBy(c, s) == {r \in AllRows : r.t = c /\ r.via = TxHandle(s)}

\* C34: the failure of a nested @Transactional call rolls nothing back: in
\* the step in which it settles with an error the transaction stays open
\* and keeps the rows written so far; when the outer unit of work has caught
\* the error and returned, outside forced-rollback mode, the scope commits,
\* and after the commit every row written in the scope, by the failed nested
\* call as by the outer method, is among the committed rows.
C34_NestedFailureKeepsWrites ==
    /\ [][\A c \in Tasks :
            Nested(c) /\ task[c].st # "done" /\ task'[c].st = "done"
            => /\ txState' = txState
               /\ txLog' = txLog
               /\ db' = db]_vars
    /\ [][\A s \in Tasks :
            /\ task[s].st = "closing"
            /\ task[s].body.kind = "ret"
            /\ ~task[s].isTddMode
            /\ task'[s].st # "closing"
            => txState'[s] = "committed"]_vars
    /\ [](\A s, c \in Tasks :
            /\ txState[s] = "committed"
            /\ Started(c)
            /\ ScopeOf(c) = s
            /\ task[c].got.kind = "rows"
            => task[c].got.rows \subseteq db)

\* the nested call wrote a row and then failed, the outer method caught the
\* error, wrote a row of its own and returned: both rows are committed
C34_Witness ==
    /\ txState[2] = "committed"
    /\ Nested(3)
    /\ task[3].parent = 2
    /\ task[3].outcome.kind = "throw"
    /\ WrittenBy(3, 2) # {}
    /\ WrittenBy(2, 2) # {}
    /\ WrittenBy(3, 2) \cup WrittenBy(2, 2) \subseteq db

\* ---------------------------------------------------------------------------
\* has activation t raised the rollback signal after its unit of work
\* returned
RaisedSignal(t) ==
    /\ task[t].body.kind = "ret"
    /\ task[t].cb.kind = "throw"
    /\ task[t].cb.val \in Signals

\* C35: in forced-rollback mode a nested @Transactional call whose method
\* returns v settles with v in the same step, raises no signal and leaves
\* the transaction open, and its caller goes on running; the signal is
\* raised by the activation that opened the transaction only, when its own
\* unit of work has returned, and carries that result; the scope then
\* resolves with the result of the outer unit of work, and no row written
\* by the outer method or by a nested call is committed.
C35_ForcedRollbackNested ==
    /\ [][\A c \in Tasks :
            /\ tddMode /\ Nested(c)
            /\ task[c].st = "run" /\ task'[c].body.kind = "ret"
            => /\ task'[c].st = "done"
               /\ task'[c].outcome = task'[c].body
               /\ task'[c].cb = NoOutcome
               /\ txState' = txState]_vars
    /\ [][\A t \in Tasks :
            /\ tddMode /\ Resume(t)
            /\ Nested(task[t].waitOn)
            /\ task[task[t].waitOn].body.kind = "ret"
            => task'[t].st = "run"]_vars
    /\ [](\A t \in Tasks :
            RaisedSignal(t)
            => /\ txState[t] # "none"
               /\ task[t].isTddMode
               /\ task[t].cb = Thrown(TddRollback(task[t].body.val))
               /\ \A c \in Tasks :
                     Started(c) /\ c # t /\ ScopeOf(c) = t => ~RaisedSignal(c))
    /\ [](\A s, c \in Tasks :
            /\ Closed(s) /\ task[s].isTddMode /\ task[s].body.kind = "ret"
            /\ Nested(c) /\ ScopeOf(c) = s
            => /\ task[s].outcome = task[s].body
               /\ \A r \in AllRows : r.t \in {s, c} => r \notin db)

\* forced-rollback mode: the nested call wrote a row and returned its id,
\* the outer method wrote a row and returned undefined; the scope resolved
\* with undefined and neither row is committed
C35_Witness ==
    /\ tddMode
    /\ Closed(2) /\ task[2].outcome = Returned(Undefined)
    /\ Nested(3) /\ task[3].parent = 2
    /\ task[3].outcome = Returned(RowId)
    /\ WrittenBy(3, 2) # {} /\ WrittenBy(2, 2) # {}
    /\ (WrittenBy(3, 2) \cup WrittenBy(2, 2)) \cap db = {}

\* ---------------------------------------------------------------------------
\* C36: whether the success of a default-mode query is logged depends on the
\* global logging flag as it was when the query was dispatched, not as it is
\* when the query is awaited: the success emits its log entry exactly when
\* the flag was enabled at the dispatch, the dispatching activation was not
\* inside withSkippedSqlLogging and the awaiting activation is not either.
C36_LoggingSampledAtDispatch ==
    [][\A t \in Tasks :
          (Succeeds(t) /\ task[t].q.mode = "default")
          => /\ InfoEntry(t) \notin logs
             /\ logs' = IF /\ task[t].q.enabled
                            /\ ~Suppressed(task[t].q.by)
                            /\ ~Suppressed(t)
                          THEN logs \cup {InfoEntry(t)} ELSE logs]_vars

\* a query dispatched with logging enabled and outside
\* withSkippedSqlLogging is awaited, outside it too, after configureDb
\* disabled logging
C36_Witness ==
    /\ task[1].st = "waitQ"
    /\ task[1].q.mode = "default"
    /\ task[1].q.enabled /\ task[1].q.by = 1
    /\ ~sqlLoggingEnabled
    /\ nConfigure = 1

\* ---------------------------------------------------------------------------
\* was q dispatched with logging attached: through sql.verbose, or through
\* sql with global logging enabled and outside withSkippedSqlLogging
Attached(q) ==
    \/ q.mode = "verbose"
    \/ q.mode = "default" /\ q.enabled /\ ~Suppressed(q.by)

\* C37: when a query dispatched with logging attached fails, the step in
\* which the failure is observed, through await, then or catch, inside
\* withSkippedSqlLogging or outside it, calls logError once, adds the one
\* error entry of that query to the log and throws the error of the target
\* into the observing code.
C37_SuppressionNeverHidesErrors ==
    [][\A t \in Tasks :
          Fails(t) /\ Attached(task[t].q)
          => /\ ErrorEntry(t) \notin logs
             /\ logs' = logs \cup {ErrorEntry(t)}
             /\ task'[t].nLogError = 1
             /\ task'[t].err = QueryError]_vars

\* a default-mode query dispatched by the root with logging enabled failed
\* while a withSkippedSqlLogging callback observed it: the error is logged,
\* once, and was thrown into the callback
C37_Witness ==
    /\ task[2].kind = "skip"
    /\ task[2].st = "exc"
    /\ task[2].err = QueryError
    /\ task[2].nLogError = 1
    /\ task[1].held = NoQuery /\ task[1].ops = 2 /\ task[2].ops = 1
    /\ logs = {[t |-> 2, n |-> 1, level |-> "error"]}

\* ---------------------------------------------------------------------------
\* C38: while activation t is inside a transaction scope, a dispatch by t
\* and a read of a dispatcher property by t leave the connection provider
\* as it is: the pooled handle (and so isDbConnected()), the handles
\* constructed and the cached database type are unchanged, also when the
\* pooled handle was reset during the scope; the dispatch goes to the
\* transaction handle of the scope and
\* the property is that of the transaction handle.  Reading sql.verbose or
\* sql.silent leaves the provider as it is anywhere.
C38_TransactionSparesProvider ==
    /\ [][\A t \in Tasks, chain \in Chains :
            DispatchVia(t, chain) /\ ScopeOf(t) # 0
            => /\ baseSql' = baseSql
               /\ isDbConnected' = isDbConnected
               /\ created' = created
               /\ detectedDbType' = detectedDbType
               /\ task'[t].st = "waitQ"
               /\ task'[t].q.target = TxHandle(ScopeOf(t))]_vars
    /\ [][\A t \in Tasks, chain \in Chains, prop \in Forwarded :
            ReadProperty(t, chain, prop) /\ ScopeOf(t) # 0
            => /\ baseSql' = baseSql
               /\ isDbConnected' = isDbConnected
               /\ created' = created
               /\ detectedDbType' = detectedDbType
               /\ task'[t].got
                    = Property(PropertyOf(TxHandle(ScopeOf(t)), prop))]_vars
    /\ [][\A t \in Tasks, chain \in Chains :
            ReadFacet(t, chain)
            => /\ baseSql' = baseSql
               /\ isDbConnected' = isDbConnected
               /\ created' = created
               /\ detectedDbType' = detectedDbType]_vars

\* the connection was reset while the @Transactional method ran; the method
\* then dispatched a query, which waits on the transaction handle, and there
\* is still no pooled handle: the one handle ever constructed is closed
C38_Witness ==
    /\ txState[2] = "open"
    /\ task[2].st = "waitQ"
    /\ task[2].q.target = TxHandle(2)
    /\ ~isDbConnected
    /\ Cardinality(created) = 1
    /\ closed = {PoolHandle(1)}

\* ---------------------------------------------------------------------------
\* C39: a call of the dispatcher, of whatever mode, whose first argument is
\* an identifier string, an array or an object without a `raw` property
\* evaluates to the result of the target, not taken through the logging
\* path, and adds no log entry, whatever the global logging flag is; the
\* target is the transaction handle of the scope the calling activation is
\* in, and the pooled handle outside every scope.
C39_NonTemplateNeverLogged ==
    [][\A t \in Tasks, chain \in Chains, firstArg \in NonTemplates :
          Invoke(t, chain, firstArg)
          => /\ task'[t].got
                  = Fragment(IF ScopeOf(t) # 0 THEN TxHandle(ScopeOf(t))
                             ELSE PoolHandle(1), FALSE)
             /\ task'[t].st = "run"
             /\ task'[t].held = task[t].held
             /\ logs' = logs
             /\ delivered' = delivered]_vars

\* with global logging enabled, a @Transactional method has called the
\* dispatcher with a non-template argument: the fragment comes from the
\* transaction handle and nothing is logged
C39_Witness ==
    /\ sqlLoggingEnabled
    /\ txState[2] = "open"
    /\ task[2].got = Fragment(TxHandle(2), FALSE)
    /\ logs = {}
====
